---- MODULE Spec2Model ----
(***************************************************************************)
(* Model of the tvBroadcast backend: the playlist scheduler                *)
(* (state.ChannelManager), the per-channel live Broadcaster with its pump  *)
(* loop and viewer fan-out, and the content stager (services.S3Manager).   *)
(*                                                                         *)
(* Time is counted in seconds.  A local file path is identified with the   *)
(* S3 key / ID of the video it holds; "" is the Broadcaster's "no source"  *)
(* sentinel.  An initialization segment is identified with the video file  *)
(* it was extracted from.                                                  *)
(***************************************************************************)
EXTENDS Integers, Sequences, FiniteSets, TLC

(* ------------------------------ bounds -------------------------------- *)
MaxTicks == 3      \* scheduler ticks explored, scheduler specification
MaxEmit == 3       \* fragments emitted per pump, scheduler specification
CastTicks == 1     \* scheduler ticks explored, viewer specification
CastEmit == 2      \* fragments emitted per pump, viewer specification
V1Ticks == 2       \* scheduler ticks explored, first scheduler version
MaxSync == 1       \* catalog refreshes explored
SyncTicks == 2     \* scheduler ticks explored, refresh specification
SyncLag == 1       \* seconds from the latest clock reading to a refresh's

(* -------------------------- program constants ------------------------- *)
TickPeriod == 5
DefaultDuration == 300

(* ------------------------- catalog fixtures --------------------------- *)
Channels == {1, 2}
Viewers == {"v1", "v2"}
Videos == {"A", "B", "C", "D"}
NoVideo == "none"
NoPath == ""
TornSegment == "torn"   \* bytes that are no video's initialization segment

\* The duration column of the videos table, in seconds (FLOAT DEFAULT 0).
\* D was stored without a known duration.
StoredDuration(v) == CASE v = "A" -> 4 [] v = "B" -> 6 [] v = "C" -> 10 [] OTHER -> 0

\* GetChannelVideos without its default for an unknown duration.
DurationAsStored(v) == StoredDuration(v)

\* models.Video.Duration as the ChannelManager receives it: GetChannelVideos
\* replaces an unknown (zero) duration by five minutes.
Duration(v) == IF StoredDuration(v) = 0 THEN DefaultDuration ELSE StoredDuration(v)

\* Number of moof+mdat fragments stored in the file of video v.
Frags(v) == CASE v = "A" -> 2 [] v = "B" -> 1 [] v = "C" -> 2 [] OTHER -> 1

\* Index of the fragment at which nextFragment meets malformed box framing
\* (0: the file is well formed).  C is truncated inside its second fragment.
Corrupt(v) == IF v = "C" THEN 2 ELSE 0

\* Byte length of the boxes that precede the first moof of the file.
InitLen(v) == CASE v = "A" -> 1 [] v = "B" -> 2 [] v = "C" -> 1 [] OTHER -> 0

\* extractInit(prefix of v's file) is non-empty.  D starts with its first
\* moof box, so bytes.Index finds "moof" at offset 4 and data[:0] is empty.
Sniffable(v) == InitLen(v) > 0

VARIABLES
    now,              \* wall clock read by the scheduler at its latest tick
    videos,           \* cm.videos: the catalog (set of video IDs)
    channelVideoMap,  \* cm.channelVideoMap: channel -> ordered playlist
    channelStates,    \* channels that have an entry in cm.channelStates
    currentVideo,     \* st.CurrentVideo per channel
    videoStartTime,   \* st.VideoStartTime per channel
    broadcasters,     \* channels that have an entry in cm.broadcasters
    nextVideoByChannel, \* cm.nextVideoByChannel (NoVideo: no entry)
    tasks,            \* detached goroutines started by the scheduler
    sched,            \* position and locals of the videoScheduler goroutine
    downloads,        \* S3Manager.downloads: keys tracked as downloaded
    files,            \* keys whose local file exists on disk
    srcPath,          \* Broadcaster.srcPath per channel
    initSegment,      \* Broadcaster.initSegment per channel
    clients,          \* Broadcaster.clients per channel
    pump,             \* position and locals of Broadcaster.loop per channel
    viewer,           \* position of each viewer's AddClient call
    conn,             \* condition of each viewer's connection (its sink)
    sink,             \* what has been written to each viewer's sink
    limit,            \* exploration limits of the behaviour (never changed)
    demux,            \* a Broadcaster built on a file given box by box
    hist              \* history (observations used by the properties only)

schedVars == <<now, videos, channelVideoMap, channelStates, currentVideo,
               videoStartTime, broadcasters, sched, limit, demux,
               nextVideoByChannel, tasks>>
stagerVars == <<downloads, files>>
castVars == <<srcPath, initSegment, clients, pump>>
viewVars == <<viewer, conn, sink>>
vars == <<now, videos, channelVideoMap, channelStates, currentVideo,
          videoStartTime, broadcasters, sched, downloads, files, srcPath,
          initSegment, clients, pump, viewer, conn, sink, limit, demux,
          nextVideoByChannel, tasks, hist>>

(* ------------------------- playlist scheduler -------------------------- *)

\* Variant of the loop that falls back to the last entry, not the first,
\* when the current video is not found.
RECURSIVE scanPlaylistFallbackLast(_, _, _)
scanPlaylistFallbackLast(list, current, i) ==
    IF i > Len(list) THEN list[Len(list)]
    ELSE IF list[i] = current
         THEN (IF i + 1 <= Len(list) THEN list[i + 1] ELSE list[1])
         ELSE scanPlaylistFallbackLast(list, current, i + 1)

\* Variant of the loop that stays on the last entry instead of wrapping.
RECURSIVE scanPlaylistNoWrap(_, _, _)
scanPlaylistNoWrap(list, current, i) ==
    IF i > Len(list) THEN list[1]
    ELSE IF list[i] = current
         THEN (IF i + 1 <= Len(list) THEN list[i + 1] ELSE list[i])
         ELSE scanPlaylistNoWrap(list, current, i + 1)

\* The loop of pickNextVideo over a non-empty playlist, entry i onwards.
RECURSIVE scanPlaylist(_, _, _)
scanPlaylist(list, current, i) ==
    IF i > Len(list) THEN list[1]
    ELSE IF list[i] = current
         THEN (IF i + 1 <= Len(list) THEN list[i + 1] ELSE list[1])
         ELSE scanPlaylist(list, current, i + 1)

\* Variant of pickNextVideo that falls back to the current video when the
\* playlist and the catalog are both empty.
pickNextVideoOrCurrent(ch, current) ==
    LET list == channelVideoMap[ch] IN
    IF Len(list) = 0
    THEN (IF videos = {} THEN {current} ELSE videos)
    ELSE {scanPlaylist(list, current, 1)}

\* pickNextVideo: the set of videos the call may return (NoVideo is nil).
\* With an empty playlist the result is the first entry of a Go map range
\* over cm.videos, i.e. any catalog entry.
pickNextVideo(ch, current) ==
    LET list == channelVideoMap[ch] IN
    IF Len(list) = 0
    THEN (IF videos = {} THEN {NoVideo} ELSE videos)
    ELSE {scanPlaylist(list, current, 1)}

\* S3Manager.DownloadVideo(s3Key): the possible outcomes of rawDownload
\* followed by validateMP4, as the stager state they leave behind.
DownloadVideo(k) ==
    IF k \in downloads
    THEN \* rawDownload answers from its cache; validateMP4 probes the file
         {[ok |-> k \in files, downloads |-> downloads, files |-> files]}
    ELSE {  \* rawDownload fails: nothing on disk, nothing tracked
            [ok |-> FALSE, downloads |-> downloads, files |-> files \ {k}],
            \* rawDownload succeeds, validateMP4 fails: file removed again
            [ok |-> FALSE, downloads |-> downloads \cup {k},
             files |-> files \ {k}],
            \* downloaded and validated
            [ok |-> TRUE, downloads |-> downloads \cup {k},
             files |-> files \cup {k}] }

\* getLocalPath(s3Key): the possible outcomes of IsVideoDownloaded /
\* DownloadVideo (rawDownload, validateMP4) followed by EnsureFragmented.
getLocalPath(k) ==
    LET local == IF k \in downloads
                 THEN \* tracked as downloaded: the path is taken as it is
                      {[ok |-> TRUE, downloads |-> downloads, files |-> files]}
                 ELSE DownloadVideo(k)
    IN \* a download error is returned
       {r \in local : ~r.ok}
       \* EnsureFragmented fails (it always does when the file is absent)
       \cup {[r EXCEPT !.ok = FALSE] : r \in {x \in local : x.ok}}
       \* EnsureFragmented returns the path of the fragmented file
       \cup {r \in local : r.ok /\ k \in r.files}

SchedIdle == [pc |-> "idle", todo |-> {}, ch |-> 0, next |-> NoVideo,
              fatal |-> FALSE]

\* b.mu of a channel is held across several steps only by the pump's
\* fan-out loop; every other critical section is a single step.
muHeld(ch) == pump[ch].pc = "fanout"

\* for range ticker.C { cm.mu.Lock(); now := time.Now(); ...
TickStart ==
    /\ sched.pc = "idle"
    /\ hist.ticks < limit.ticks
    /\ \E d \in 1..TickPeriod :
          \* the first tick comes at most one period after initialization,
          \* every later one a period after the tick before it
          /\ IF hist.ticks = 0 THEN d \in limit.phases ELSE d = TickPeriod
          /\ now' = hist.tickAt + d
          /\ hist' = [hist EXCEPT !.ticks = @ + 1, !.tickAt = now']
    /\ sched' = [SchedIdle EXCEPT !.pc = "chan", !.todo = channelStates]
    /\ UNCHANGED <<videos, channelVideoMap, channelStates, currentVideo,
                   videoStartTime, broadcasters, limit, demux,
                   nextVideoByChannel, tasks>>
    /\ UNCHANGED <<stagerVars, castVars, viewVars>>

\* Variant of the move to the next channel that leaves the range loop.
ContinueEndsRange(ch) == [SchedIdle EXCEPT !.pc = "chan", !.todo = {}]

\* The scheduler moves on to the next channel of the range loop.
Continue(ch) == [SchedIdle EXCEPT !.pc = "chan", !.todo = sched.todo \ {ch}]

\* Variant of the iteration without the elapsed-time test: every tick
\* rotates the channel.
SchedCheckEveryTick(ch) ==
    /\ sched.pc = "chan"
    /\ ch \in sched.todo
    /\ ch \in broadcasters => ~muHeld(ch)
    /\ LET fatal == ch \in broadcasters /\ srcPath[ch] = NoPath
       IN IF fatal \/ currentVideo[ch] # NoVideo
          THEN \E next \in pickNextVideo(ch, currentVideo[ch]) :
                  sched' = IF next = NoVideo THEN Continue(ch)
                           ELSE [pc |-> "stage", todo |-> sched.todo,
                                 ch |-> ch, next |-> next, fatal |-> fatal]
          ELSE sched' = Continue(ch)
    /\ hist' = [hist EXCEPT !.nested[ch] = @ \/ ch \in broadcasters]
    /\ UNCHANGED <<now, videos, channelVideoMap, channelStates, currentVideo,
                   videoStartTime, broadcasters, limit, demux>>
    /\ UNCHANGED <<nextVideoByChannel, tasks>>
    /\ UNCHANGED <<stagerVars, castVars, viewVars>>

\* Variant of the iteration without the fatal check: a channel rotates
\* only when its current video has run for its duration.
SchedCheckNoFatal(ch) ==
    /\ sched.pc = "chan"
    /\ ch \in sched.todo
    /\ ch \in broadcasters => ~muHeld(ch)
    /\ LET due == /\ currentVideo[ch] # NoVideo
                  /\ now - videoStartTime[ch] >= Duration(currentVideo[ch])
       IN IF due
          THEN \E next \in pickNextVideo(ch, currentVideo[ch]) :
                  sched' = IF next = NoVideo THEN Continue(ch)
                           ELSE [pc |-> "stage", todo |-> sched.todo,
                                 ch |-> ch, next |-> next, fatal |-> FALSE]
          ELSE sched' = Continue(ch)
    /\ UNCHANGED <<now, videos, channelVideoMap, channelStates, currentVideo,
                   videoStartTime, broadcasters, limit, demux, hist>>
    /\ UNCHANGED <<nextVideoByChannel, tasks>>
    /\ UNCHANGED <<stagerVars, castVars, viewVars>>

\* One iteration of the range loop up to the choice of the next video:
\* the fatal check through CurrentPath(), the elapsed-time check and
\* pickNextVideo.
SchedCheck(ch) ==
    /\ sched.pc = "chan"
    /\ ch \in sched.todo
    /\ ch \in broadcasters => ~muHeld(ch)      \* CurrentPath() takes b.mu
    /\ LET fatal == ch \in broadcasters /\ srcPath[ch] = NoPath
           due == /\ currentVideo[ch] # NoVideo
                  /\ now - videoStartTime[ch] >= Duration(currentVideo[ch])
       IN IF fatal \/ due
          THEN \E next \in pickNextVideo(ch, currentVideo[ch]) :
                  sched' = IF next = NoVideo THEN Continue(ch)
                           ELSE [pc |-> "stage", todo |-> sched.todo,
                                 ch |-> ch, next |-> next, fatal |-> fatal]
          ELSE sched' = Continue(ch)
    \* bc.CurrentPath() locks b.mu while the tick holds cm.mu
    /\ hist' = [hist EXCEPT !.nested[ch] = @ \/ ch \in broadcasters]
    /\ UNCHANGED <<now, videos, channelVideoMap, channelStates, currentVideo,
                   videoStartTime, broadcasters, limit, demux>>
    /\ UNCHANGED <<nextVideoByChannel, tasks>>
    /\ UNCHANGED <<stagerVars, castVars, viewVars>>

\* Variant of the state update that starts the next video at the nominal
\* end of the previous one.
RotatedAtNominalEnd(ch, next) ==
    /\ currentVideo' = [currentVideo EXCEPT ![ch] = next]
    /\ videoStartTime' = [videoStartTime EXCEPT
                            ![ch] = @ + Duration(currentVideo[ch])]
    /\ hist' = [hist EXCEPT
                   !.rot[ch] = @ + 1,
                   !.retry[ch] = NoVideo,
                   !.early[ch] =
                       IF now - videoStartTime[ch] < Duration(currentVideo[ch])
                       THEN @ + 1 ELSE @]
    /\ sched' = Continue(ch)

\* st.CurrentVideo = next; st.VideoStartTime = now
Rotated(ch, next) ==
    /\ currentVideo' = [currentVideo EXCEPT ![ch] = next]
    /\ videoStartTime' = [videoStartTime EXCEPT ![ch] = now]
    /\ hist' = [hist EXCEPT
                   !.rot[ch] = @ + 1,
                   !.retry[ch] = NoVideo,
                   !.early[ch] =
                       IF now - videoStartTime[ch] < Duration(currentVideo[ch])
                       THEN @ + 1 ELSE @]
    /\ sched' = Continue(ch)

\* local, err := cm.getLocalPath(next.S3Key), blocking, under cm.mu.
SchedStage ==
    /\ sched.pc = "stage"
    /\ \E r \in getLocalPath(sched.next) :
          /\ downloads' = r.downloads
          /\ files' = r.files
          /\ IF ~r.ok
             THEN /\ sched' = Continue(sched.ch)
                  /\ hist' = [hist EXCEPT !.fails[sched.ch] = @ + 1,
                                           !.retry[sched.ch] = sched.next]
                  /\ UNCHANGED <<currentVideo, videoStartTime>>
             ELSE IF sched.ch \in broadcasters
             THEN /\ sched' = [sched EXCEPT !.pc = "sw_open"]
                  /\ UNCHANGED <<currentVideo, videoStartTime, hist>>
             ELSE Rotated(sched.ch, sched.next)
    /\ UNCHANGED <<now, videos, channelVideoMap, channelStates, broadcasters,
                   limit, demux, nextVideoByChannel, tasks>>
    /\ UNCHANGED <<castVars, viewVars>>

\* Variant of SwitchSource that also pushes the new initialization segment
\* to every registered client.
SwitchOpenResend ==
    /\ sched.pc = "sw_open"
    /\ \E opened \in BOOLEAN :
          /\ opened => sched.next \in files
          /\ IF opened
             THEN /\ initSegment' =
                        IF Sniffable(sched.next)
                        THEN [initSegment EXCEPT ![sched.ch] = sched.next]
                        ELSE initSegment
                  /\ sink' = [v \in Viewers |->
                                IF v \in clients[sched.ch]
                                THEN Append(sink[v], <<"init", sched.next>>)
                                ELSE sink[v]]
                  /\ sched' = [sched EXCEPT !.pc = "sw_path"]
                  /\ UNCHANGED <<currentVideo, videoStartTime, hist>>
             ELSE /\ Rotated(sched.ch, sched.next)
                  /\ UNCHANGED <<initSegment, sink>>
    /\ UNCHANGED <<now, videos, channelVideoMap, channelStates, broadcasters,
                   limit, demux, nextVideoByChannel, tasks>>
    /\ UNCHANGED <<srcPath, clients, pump>>
    /\ UNCHANGED <<stagerVars, viewer, conn>>

\* SwitchSource, first half: os.Open(path); on success the 2 MB prefix is
\* read and, if extractInit finds a segment, b.initSegment is overwritten.
\* On failure SwitchSource returns the error, which the scheduler drops.
SwitchOpen ==
    /\ sched.pc = "sw_open"
    /\ \E opened \in BOOLEAN :
          /\ opened => sched.next \in files
          /\ IF opened
             THEN /\ initSegment' =
                        IF Sniffable(sched.next)
                        THEN [initSegment EXCEPT ![sched.ch] = sched.next]
                        ELSE initSegment
                  /\ sched' = [sched EXCEPT !.pc = "sw_path"]
                  /\ UNCHANGED <<currentVideo, videoStartTime, hist>>
             ELSE /\ Rotated(sched.ch, sched.next)
                  /\ UNCHANGED initSegment
    /\ UNCHANGED <<now, videos, channelVideoMap, channelStates, broadcasters,
                   limit, demux, nextVideoByChannel, tasks>>
    /\ UNCHANGED <<srcPath, clients, pump>>
    /\ UNCHANGED <<stagerVars, viewVars>>

\* Variant in which the scheduler, back from SwitchSource, moves on to the
\* next channel without advancing the channel state.
SwitchPathKeepsState ==
    /\ sched.pc = "sw_path"
    /\ srcPath' = [srcPath EXCEPT ![sched.ch] = sched.next]
    /\ sched' = Continue(sched.ch)
    /\ UNCHANGED <<currentVideo, videoStartTime, hist>>
    /\ UNCHANGED <<now, videos, channelVideoMap, channelStates, broadcasters,
                   limit, demux, nextVideoByChannel, tasks>>
    /\ UNCHANGED <<initSegment, clients, pump>>
    /\ UNCHANGED <<stagerVars, viewVars>>

\* SwitchSource, second half: b.srcPath = path; return nil.  Back in the
\* scheduler the channel state is advanced.
SwitchPath ==
    /\ sched.pc = "sw_path"
    /\ srcPath' = [srcPath EXCEPT ![sched.ch] = sched.next]
    /\ Rotated(sched.ch, sched.next)
    /\ UNCHANGED <<now, videos, channelVideoMap, channelStates, broadcasters,
                   limit, demux, nextVideoByChannel, tasks>>
    /\ UNCHANGED <<initSegment, clients, pump>>
    /\ UNCHANGED <<stagerVars, viewVars>>

\* End of the range loop: cm.mu.Unlock()
TickEnd ==
    /\ sched.pc = "chan"
    /\ sched.todo = {}
    /\ sched' = SchedIdle
    /\ UNCHANGED <<now, videos, channelVideoMap, channelStates, currentVideo,
                   videoStartTime, broadcasters, limit, demux, hist>>
    /\ UNCHANGED <<nextVideoByChannel, tasks>>
    /\ UNCHANGED <<stagerVars, castVars, viewVars>>

(* ------------------------- box framing of a file ----------------------- *)

Uint64Mod == 1073741824   \* stands for 2^64, the modulus of uint64 arithmetic
MaxAlloc == 1048576       \* stands for the largest length make([]byte, n) accepts
MaxFrags == 2             \* most fragment-part items of a generated file

\* A box as it lies in a file: its type, the 32-bit size field, the 64-bit
\* size that follows the type when the size field is 1, and the number of
\* bytes that follow the header in the file.
Box(typ, size32, ext, body) ==
    [typ |-> typ, size32 |-> size32, ext |-> ext, body |-> body]

Plain(typ) == Box(typ, 10, 0, 2)       \* 8-byte header, 2 payload bytes
Empty(typ) == Box(typ, 8, 0, 0)        \* 8-byte header, no payload
Wide(typ) == Box(typ, 1, 17, 1)        \* 16-byte header, 1 payload byte

\* Bytes of the header of box b and bytes the box occupies in the file.
HeaderLen(b) == IF b.size32 = 1 THEN 16 ELSE 8
BoxBytes(b) == HeaderLen(b) + b.body

RECURSIVE OffsetOf(_, _)
OffsetOf(boxes, i) ==
    IF i <= 1 THEN 0 ELSE OffsetOf(boxes, i - 1) + BoxBytes(boxes[i - 1])

\* A file: whether it can be opened, its boxes, and the number of bytes
\* (fewer than a header) that follow the last box.
FileLen(f) == OffsetOf(f.boxes, Len(f.boxes) + 1) + f.tail

\* Index of the box that starts at byte offset off, 0 when none does.
BoxAt(f, off) ==
    IF \E i \in DOMAIN f.boxes : OffsetOf(f.boxes, i) = off
    THEN CHOOSE i \in DOMAIN f.boxes : OffsetOf(f.boxes, i) = off
    ELSE 0

\* readBox(r) with r at offset off of f.  io.ReadFull of the 8 header bytes
\* gives io.EOF at the end of the file and io.ErrUnexpectedEOF on 1 to 7
\* bytes; size 0 is answered with io.EOF; the payload length is size - 8
\* (extended size - 16) in uint64 arithmetic and make([]byte, payloadSize)
\* panics when that length is out of range; io.ReadFull of the payload
\* gives io.EOF when no payload byte is left and io.ErrUnexpectedEOF when
\* the payload ends early.  box is the box read, next the offset after it.
readBox(f, off) ==
    LET rem == FileLen(f) - off
        i == BoxAt(f, off)
        Result(res) == [res |-> res, box |-> i, next |-> off]
    IN IF rem = 0 THEN Result("eof")
       ELSE IF rem < 8 THEN Result("err")
       ELSE IF i = 0 THEN Result("err")    \* off lies inside a box
       ELSE LET b == f.boxes[i]
                payloadSize == IF b.size32 = 1
                               THEN (b.ext - 16) % Uint64Mod
                               ELSE (b.size32 - 8) % Uint64Mod
            IN IF b.size32 = 0 THEN Result("eof")
               ELSE IF payloadSize > MaxAlloc THEN Result("panic")
               ELSE IF b.body < payloadSize
                    THEN Result(IF b.body = 0 THEN "eof" ELSE "err")
               ELSE [res |-> "box", box |-> i,
                     next |-> off + HeaderLen(b) + payloadSize]

\* buildInitSegment(path): os.Open, then boxes are read and collected until
\* the first moof; any readBox error, io.EOF included, is returned.
RECURSIVE collectInit(_, _, _)
collectInit(f, off, buf) ==
    LET r == readBox(f, off) IN
    IF r.res # "box" THEN [res |-> IF r.res = "panic" THEN "panic" ELSE "err",
                           init |-> <<>>, len |-> 0, at |-> off]
    ELSE IF f.boxes[r.box].typ = "moof"
         THEN [res |-> "ok", init |-> buf, len |-> off, at |-> off]
         ELSE collectInit(f, r.next, Append(buf, r.box))

\* Variant that leaves the moov box out of the collected boxes.
buildInitSegmentToMoov(f) ==
    IF ~f.exists THEN [res |-> "err", init |-> <<>>, len |-> 0, at |-> 0]
    ELSE LET r == collectInit(f, 0, <<>>) IN
         [r EXCEPT !.init = SelectSeq(r.init,
                               LAMBDA i : f.boxes[i].typ # "moov")]

buildInitSegment(f) ==
    IF ~f.exists THEN [res |-> "err", init |-> <<>>, len |-> 0, at |-> 0]
    ELSE collectInit(f, 0, <<>>)

\* nextFragment(r) with r at offset off: boxes other than moof are skipped;
\* a moof and the box after it are returned together when that box is an
\* mdat and are both skipped otherwise; a readBox error is returned as is.
\* at is the offset of the readBox call that ended the search.
\* Variant that returns a moof with whatever box follows it.
RECURSIVE nextFragmentAnyPair(_, _)
nextFragmentAnyPair(f, off) ==
    LET box == readBox(f, off) IN
    IF box.res # "box"
    THEN [res |-> box.res, frag |-> <<>>, next |-> off, at |-> off]
    ELSE IF f.boxes[box.box].typ # "moof" THEN nextFragmentAnyPair(f, box.next)
    ELSE LET mdat == readBox(f, box.next) IN
         IF mdat.res # "box"
         THEN [res |-> mdat.res, frag |-> <<>>, next |-> box.next,
               at |-> box.next]
         ELSE [res |-> "frag", frag |-> <<box.box, mdat.box>>,
               next |-> mdat.next, at |-> box.next]

RECURSIVE nextFragmentAt(_, _)
nextFragmentAt(f, off) ==
    LET box == readBox(f, off) IN
    IF box.res # "box"
    THEN [res |-> box.res, frag |-> <<>>, next |-> off, at |-> off]
    ELSE IF f.boxes[box.box].typ # "moof" THEN nextFragmentAt(f, box.next)
    ELSE LET mdat == readBox(f, box.next) IN
         IF mdat.res # "box"
         THEN [res |-> mdat.res, frag |-> <<>>, next |-> box.next,
               at |-> box.next]
         ELSE IF f.boxes[mdat.box].typ # "mdat"
              THEN nextFragmentAt(f, mdat.next)
              ELSE [res |-> "frag", frag |-> <<box.box, mdat.box>>,
                    next |-> mdat.next, at |-> box.next]

\* Bytes of a run of boxes of f given by their indices.
RECURSIVE RunBytes(_, _)
RunBytes(f, run) ==
    IF run = <<>> THEN 0
    ELSE BoxBytes(f.boxes[Head(run)]) + RunBytes(f, Tail(run))

\* Go's integer division truncates toward zero.
GoDiv(a, b) == IF a >= 0 THEN a \div b ELSE -((-a) \div b)

(* --------------------------- live broadcaster -------------------------- *)

PumpAt(pc) == [pc |-> pc, file |-> NoPath, skip |-> NoVideo, pos |-> 0,
               frag |-> <<>>, pending |-> <<>>]

\* All orders in which a Go map range may visit the set S.
RangeOrders(S) ==
    {q \in [1..Cardinality(S) -> S] : \A i, j \in DOMAIN q :
                                          q[i] = q[j] => i = j}

\* Seeking len(initSegment) bytes into the open file lands on its first
\* moof exactly when that length is the length of the file's own init boxes.
Aligned(p) == InitLen(p.skip) = InitLen(p.file)

\* loop: f, err := os.Open(b.srcPath) -- b.srcPath is read without b.mu.
\* A failed open sleeps one second and retries (the state is unchanged).
PumpOpen(ch) ==
    /\ ch \in broadcasters
    /\ pump[ch].pc = "open"
    /\ pump' = [pump EXCEPT ![ch] =
                  IF srcPath[ch] # NoPath /\ srcPath[ch] \in files
                  THEN [PumpAt("seek") EXCEPT !.file = srcPath[ch]]
                  ELSE PumpAt("open")]
    /\ UNCHANGED <<schedVars, stagerVars, viewVars, hist>>
    /\ UNCHANGED <<srcPath, initSegment, clients>>

\* loop: f.Seek(int64(len(b.initSegment)), io.SeekStart) -- b.initSegment
\* is read without b.mu.
PumpSeek(ch) ==
    /\ pump[ch].pc = "seek"
    /\ pump' = [pump EXCEPT ![ch].pc = "read", ![ch].skip = initSegment[ch],
                            ![ch].pos = 1]
    /\ UNCHANGED <<schedVars, stagerVars, viewVars, hist>>
    /\ UNCHANGED <<srcPath, initSegment, clients>>

\* What nextFragment(f) returns at the pump's position: "eof", "err" (any
\* other error) or a fragment <<file, index>>.  After a misaligned seek the
\* parser runs over bytes that are not box headers; index 0 stands for
\* bytes that are no fragment of the file.
nextFragment(p) ==
    IF Aligned(p)
    THEN IF p.pos > Frags(p.file) THEN {"eof"}
         ELSE IF Corrupt(p.file) = p.pos THEN {"err"}
         ELSE {<<p.file, p.pos>>}
    ELSE {"eof", "err", <<p.file, 0>>}

\* Variant of the inner loop that, at end of file, keeps the file open and
\* seeks back instead of reopening b.srcPath.
PumpReadRewinds(ch) ==
    /\ pump[ch].pc = "read"
    /\ \E r \in nextFragment(pump[ch]) :
          CASE r = "eof" ->
                 /\ pump' = [pump EXCEPT ![ch].pc = "seek"]
                 /\ UNCHANGED hist
            [] r = "err" ->
                 /\ pump' = [pump EXCEPT ![ch].pc = "clear"]
                 /\ UNCHANGED hist
            [] OTHER ->
                 /\ hist.emitted[ch] < limit.emits
                 /\ \E order \in RangeOrders(clients[ch]) :
                       pump' = [pump EXCEPT ![ch].pc = "fanout",
                                            ![ch].frag = r,
                                            ![ch].pos = @ + 1,
                                            ![ch].pending = order]
                 /\ hist' = [hist EXCEPT !.emitted[ch] = @ + 1]
    /\ UNCHANGED <<schedVars, stagerVars, viewVars>>
    /\ UNCHANGED <<srcPath, initSegment, clients>>

\* Inner loop up to the fan-out: frag, err := nextFragment(f); EOF closes
\* the file and reopens; an error closes the file and goes on to clear
\* srcPath; a fragment takes b.mu and starts the range over b.clients.
PumpRead(ch) ==
    /\ pump[ch].pc = "read"
    /\ \E r \in nextFragment(pump[ch]) :
          CASE r = "eof" ->
                 /\ pump' = [pump EXCEPT ![ch] = PumpAt("open")]
                 /\ UNCHANGED hist
            [] r = "err" ->
                 /\ pump' = [pump EXCEPT ![ch].pc = "clear"]
                 /\ UNCHANGED hist
            [] OTHER ->
                 /\ hist.emitted[ch] < limit.emits
                 /\ \E order \in RangeOrders(clients[ch]) :
                       pump' = [pump EXCEPT ![ch].pc = "fanout",
                                            ![ch].frag = r,
                                            ![ch].pos = @ + 1,
                                            ![ch].pending = order]
                 /\ hist' = [hist EXCEPT !.emitted[ch] = @ + 1]
    /\ UNCHANGED <<schedVars, stagerVars, viewVars>>
    /\ UNCHANGED <<srcPath, initSegment, clients>>

\* b.mu.Lock(); b.srcPath = ""; b.mu.Unlock(); break
PumpClear(ch) ==
    /\ pump[ch].pc = "clear"
    /\ srcPath' = [srcPath EXCEPT ![ch] = NoPath]
    /\ pump' = [pump EXCEPT ![ch] = PumpAt("open")]
    /\ UNCHANGED <<schedVars, stagerVars, viewVars, hist>>
    /\ UNCHANGED <<initSegment, clients>>

\* Variant of the fan-out write that takes cm.mu.RLock() for every client
\* while b.mu is held.
PumpWriteUnderSchedLock(ch) ==
    /\ sched.pc = "idle"
    /\ pump[ch].pc = "fanout"
    /\ pump[ch].pending # <<>>
    /\ LET v == Head(pump[ch].pending) IN
          /\ conn[v] # "slow"
          /\ IF conn[v] = "ok"
             THEN /\ sink' = [sink EXCEPT ![v] =
                                 Append(@, <<"frag", pump[ch].frag>>)]
                  /\ hist' = [hist EXCEPT !.rewrite[v] = @ \/ hist.failed[v]]
             ELSE /\ hist' = [hist EXCEPT !.failed[v] = TRUE,
                                          !.rewrite[v] = @ \/ hist.failed[v]]
                  /\ UNCHANGED sink
    /\ pump' = [pump EXCEPT ![ch].pending = Tail(@)]
    /\ UNCHANGED <<schedVars, stagerVars, viewer, conn>>
    /\ UNCHANGED <<srcPath, initSegment, clients>>

\* Variant of the fan-out that ends the range after its first client.
PumpWriteFirstOnly(ch) ==
    /\ pump[ch].pc = "fanout"
    /\ pump[ch].pending # <<>>
    /\ LET v == Head(pump[ch].pending) IN
          /\ conn[v] # "slow"
          /\ IF conn[v] = "ok"
             THEN /\ sink' = [sink EXCEPT ![v] =
                                 Append(@, <<"frag", pump[ch].frag>>)]
                  /\ hist' = [hist EXCEPT !.rewrite[v] = @ \/ hist.failed[v]]
             ELSE /\ hist' = [hist EXCEPT !.failed[v] = TRUE,
                                          !.rewrite[v] = @ \/ hist.failed[v]]
                  /\ UNCHANGED sink
    /\ pump' = [pump EXCEPT ![ch].pending = <<>>]
    /\ UNCHANGED <<schedVars, stagerVars, viewer, conn>>
    /\ UNCHANGED <<srcPath, initSegment, clients>>

\* One iteration of the fan-out range: cl.w.Write(frag) to the next client
\* of the range.  The write blocks while the client's connection is
\* stalled and fails once it is broken; a failure changes nothing in
\* b.clients.
PumpWrite(ch) ==
    /\ pump[ch].pc = "fanout"
    /\ pump[ch].pending # <<>>
    /\ LET v == Head(pump[ch].pending) IN
          /\ conn[v] # "slow"
          /\ IF conn[v] = "ok"
             THEN /\ sink' = [sink EXCEPT ![v] =
                                 Append(@, <<"frag", pump[ch].frag>>)]
                  /\ hist' = [hist EXCEPT !.rewrite[v] = @ \/ hist.failed[v]]
             ELSE /\ hist' = [hist EXCEPT !.failed[v] = TRUE,
                                          !.rewrite[v] = @ \/ hist.failed[v]]
                  /\ UNCHANGED sink
    /\ pump' = [pump EXCEPT ![ch].pending = Tail(@)]
    /\ UNCHANGED <<schedVars, stagerVars, viewer, conn>>
    /\ UNCHANGED <<srcPath, initSegment, clients>>

\* End of the range: b.mu.Unlock(), the pacing sleeps, next inner iteration.
PumpPace(ch) ==
    /\ pump[ch].pc = "fanout"
    /\ pump[ch].pending = <<>>
    /\ pump' = [pump EXCEPT ![ch].pc = "read", ![ch].frag = <<>>]
    /\ UNCHANGED <<schedVars, stagerVars, viewVars, hist>>
    /\ UNCHANGED <<srcPath, initSegment, clients>>

(* ------------------------------- viewers ------------------------------- *)

ViewerAt(pc, ch) == [pc |-> pc, ch |-> ch]

\* Viewers are interchangeable; they are taken to connect in this order.
ViewerOrder == [v \in Viewers |-> IF v = "v1" THEN 1 ELSE 2]

\* LiveStreamHandler: bc := cm.GetBroadcaster(n) under cm.mu.RLock(), which
\* waits while the scheduler holds cm.mu for its tick; nil is answered with
\* 404 "channel offline", otherwise bc.AddClient(w, r) is entered.
Attach(v, ch) ==
    /\ viewer[v].pc = "idle"
    /\ sched.pc = "idle"
    /\ \A w \in Viewers : ViewerOrder[w] < ViewerOrder[v] => viewer[w].pc # "idle"
    /\ viewer' = [viewer EXCEPT ![v] =
                    IF ch \in broadcasters THEN ViewerAt("hdr", ch)
                    ELSE ViewerAt("offline", ch)]
    /\ hist' = [hist EXCEPT !.joined[v] =
                   IF /\ ch \in broadcasters
                      /\ hist.rot[ch] > 0
                      /\ srcPath[ch] = currentVideo[ch]
                   THEN currentVideo[ch] ELSE NoVideo]
    /\ UNCHANGED <<schedVars, stagerVars, castVars, conn, sink>>

\* What AddClient's read of b.initSegment, made without b.mu, may yield.
\* SwitchSource stores the slice without b.mu as well; while that store is
\* under way (SwitchOpen is the step that completes it) the three words of
\* the slice header may be read partly old and partly new.
readInitSegment(ch) ==
    IF /\ sched.pc = "sw_open"
       /\ sched.ch = ch
       /\ sched.next \in files
       /\ Sniffable(sched.next)
       /\ sched.next # initSegment[ch]
    THEN {initSegment[ch], TornSegment}
    ELSE {initSegment[ch]}

\* AddClient: w.Write(b.initSegment), flushed on success.  A write error
\* is dropped.
WriteInit(v) ==
    /\ viewer[v].pc = "hdr"
    /\ conn[v] # "slow"
    /\ \E seg \in readInitSegment(viewer[v].ch) :
          sink' = IF conn[v] = "ok"
                  THEN [sink EXCEPT ![v] = Append(@, <<"init", seg>>)]
                  ELSE sink
    /\ viewer' = [viewer EXCEPT ![v].pc = "reg"]
    /\ UNCHANGED <<schedVars, stagerVars, castVars, conn, hist>>

\* AddClient: b.mu.Lock(); b.clients[cl] = struct{}{}; b.mu.Unlock()
Register(v) ==
    /\ viewer[v].pc = "reg"
    /\ ~muHeld(viewer[v].ch)
    /\ clients' = [clients EXCEPT ![viewer[v].ch] = @ \cup {v}]
    /\ viewer' = [viewer EXCEPT ![v].pc = "wait"]
    /\ UNCHANGED <<schedVars, stagerVars, conn, sink, hist>>
    /\ UNCHANGED <<srcPath, initSegment, pump>>

\* <-r.Context().Done(): the connection's context is cancelled.
Cancel(v) ==
    /\ viewer[v].pc = "wait"
    /\ viewer' = [viewer EXCEPT ![v].pc = "leaving"]
    /\ UNCHANGED <<schedVars, stagerVars, castVars, conn, sink, hist>>

\* Variant of the removal that does not take b.mu.
DetachUnlocked(v) ==
    /\ viewer[v].pc = "leaving"
    /\ clients' = [clients EXCEPT ![viewer[v].ch] = @ \ {v}]
    /\ viewer' = [viewer EXCEPT ![v].pc = "gone"]
    /\ UNCHANGED <<schedVars, stagerVars, conn, sink, hist>>
    /\ UNCHANGED <<srcPath, initSegment, pump>>

\* AddClient: b.mu.Lock(); delete(b.clients, cl); b.mu.Unlock(); return
Detach(v) ==
    /\ viewer[v].pc = "leaving"
    /\ ~muHeld(viewer[v].ch)
    /\ clients' = [clients EXCEPT ![viewer[v].ch] = @ \ {v}]
    /\ viewer' = [viewer EXCEPT ![v].pc = "gone"]
    /\ UNCHANGED <<schedVars, stagerVars, conn, sink, hist>>
    /\ UNCHANGED <<srcPath, initSegment, pump>>

\* The viewer's side of the connection: it stops reading (writes to it
\* block), resumes, or is lost (writes to it fail from then on).
Stall(v) ==
    /\ conn[v] = "ok"
    /\ viewer[v].pc = "wait"
    /\ conn' = [conn EXCEPT ![v] = "slow"]
    /\ UNCHANGED <<schedVars, stagerVars, castVars, viewer, sink, hist>>

Resume(v) ==
    /\ conn[v] = "slow"
    /\ conn' = [conn EXCEPT ![v] = "ok"]
    /\ UNCHANGED <<schedVars, stagerVars, castVars, viewer, sink, hist>>

Break(v) ==
    /\ conn[v] # "broken"
    /\ viewer[v].pc \in {"hdr", "wait"}
    /\ conn' = [conn EXCEPT ![v] = "broken"]
    /\ UNCHANGED <<schedVars, stagerVars, castVars, viewer, sink, hist>>

(* ---------------------------- state queries --------------------------- *)

\* The response recorded before any query was answered.
NoReply == [ch |-> 0, video |-> NoVideo, currentTime |-> 0, at |-> 0]

\* Variant of the handler that reports the elapsed time as it is.
GetChannelStateHandlerUnclamped(ch) ==
    /\ sched.pc = "idle"
    /\ \E lag \in 0..(TickPeriod - 1) :
          /\ hist.ticks = 0 => lag = 0
          /\ LET at == now + lag
                 elapsedTime == at - videoStartTime[ch]
             IN hist' = [hist EXCEPT !.reply =
                   IF ch \in channelStates /\ currentVideo[ch] # NoVideo
                   THEN [ch |-> ch, video |-> currentVideo[ch],
                         currentTime |-> elapsedTime, at |-> at]
                   ELSE [ch |-> ch, video |-> NoVideo, currentTime |-> 0,
                         at |-> at]]
    /\ UNCHANGED <<schedVars, stagerVars, castVars, viewVars>>

\* GetChannelStateHandler: state, err := cm.GetChannelState(n) under
\* cm.mu.RLock() (it waits while a tick holds cm.mu); 404 when the channel
\* has no state or no current video; otherwise now := time.Now() and the
\* elapsed time, cut down to the duration and raised to 0, is reported.
\* The handler's clock reads between the latest tick and the next one.
GetChannelStateHandler(ch) ==
    /\ sched.pc = "idle"
    /\ \E lag \in 0..(TickPeriod - 1) :
          /\ hist.ticks = 0 => lag = 0
          /\ LET at == now + lag
                 elapsedTime == at - videoStartTime[ch]
                 duration == Duration(currentVideo[ch])
                 currentTime == IF elapsedTime > duration THEN duration
                                ELSE IF elapsedTime < 0 THEN 0
                                ELSE elapsedTime
             IN hist' = [hist EXCEPT !.reply =
                   IF ch \in channelStates /\ currentVideo[ch] # NoVideo
                   THEN [ch |-> ch, video |-> currentVideo[ch],
                         currentTime |-> currentTime, at |-> at]
                   ELSE [ch |-> ch, video |-> NoVideo, currentTime |-> 0,
                         at |-> at]]
    /\ UNCHANGED <<schedVars, stagerVars, castVars, viewVars>>

\* WebSocketClient.sendCurrentChannelState: the same copy of the channel
\* state taken under cm.mu.RLock(); a channel without state or without a
\* current video is answered with an empty videoUpdate; otherwise the
\* elapsed time since VideoStartTime, cut down to the duration and raised
\* to 0, is sent as CurrentTime.
sendCurrentChannelState(ch) ==
    /\ sched.pc = "idle"
    /\ \E lag \in 0..(TickPeriod - 1) :
          /\ hist.ticks = 0 => lag = 0
          /\ LET at == now + lag
                 elapsedTime == at - videoStartTime[ch]
                 duration == Duration(currentVideo[ch])
                 currentTime == IF elapsedTime > duration THEN duration
                                ELSE IF elapsedTime < 0 THEN 0
                                ELSE elapsedTime
             IN hist' = [hist EXCEPT !.update =
                   IF ch \in channelStates /\ currentVideo[ch] # NoVideo
                   THEN [ch |-> ch, video |-> currentVideo[ch],
                         currentTime |-> currentTime, at |-> at]
                   ELSE [ch |-> ch, video |-> NoVideo, currentTime |-> 0,
                         at |-> at]]
    /\ UNCHANGED <<schedVars, stagerVars, castVars, viewVars>>

(* --------------------------- catalog refresh --------------------------- *)
(* SyncService.syncVideos calls InitializeWithS3Content, at start-up and   *)
(* then periodically.  The call holds cm.mu from its first line to its     *)
(* return; its position is kept in sched, like the tick's.                 *)

\* The entries of a playlist, as a set.
Entries(list) == {list[i] : i \in DOMAIN list}

\* InitializeWithS3Content up to the channel loop: cm.mu.Lock(), the
\* catalog is stored and cm.channelVideoMap is rebuilt by a range over the
\* videos map, so that every playlist comes out in some order of the range.
SyncStart ==
    /\ sched.pc = "idle"
    /\ hist.syncs < limit.syncs
    /\ \E chs \in {{1}, Channels} :
          sched' = [SchedIdle EXCEPT !.pc = "sync", !.todo = chs]
    /\ \E m \in [Channels -> UNION {RangeOrders(Entries(channelVideoMap[ch])) :
                                      ch \in Channels}] :
          /\ \A ch \in Channels :
                m[ch] \in RangeOrders(Entries(channelVideoMap[ch]))
          /\ channelVideoMap' = m
    /\ hist' = [hist EXCEPT !.syncs = @ + 1]
    /\ UNCHANGED <<now, videos, channelStates, currentVideo, videoStartTime,
                   broadcasters, limit, demux, nextVideoByChannel, tasks>>
    /\ UNCHANGED <<stagerVars, castVars, viewVars>>

\* One iteration of the channel loop: the channel state is replaced by a
\* new one on the first video of the playlist (any catalog entry when the
\* playlist is empty) with VideoStartTime: time.Now(); the video is staged
\* and a new Broadcaster is created and stored for the channel.  A staging
\* or NewBroadcaster failure leaves cm.broadcasters as it was.
SyncChannel(ch) ==
    /\ sched.pc = "sync"
    /\ ch \in sched.todo
    /\ ch = 2 => 1 \notin sched.todo          \* the order of the slice
    /\ sched' = [sched EXCEPT !.todo = @ \ {ch}]
    /\ LET videoList == channelVideoMap[ch]
           firsts == IF Len(videoList) > 0 THEN {videoList[1]} ELSE videos
       IN IF firsts = {}
          THEN UNCHANGED <<now, channelStates, currentVideo, videoStartTime,
                           broadcasters, nextVideoByChannel, stagerVars,
                           castVars, hist>>
          ELSE \E first \in firsts, lag \in 0..SyncLag :
               \E r \in getLocalPath(first) :
                  \* time.Now() reads at or after the latest reading and
                  \* before the next tick
                  /\ hist.ticks = 0 => lag = 0
                  /\ now + lag < hist.tickAt + TickPeriod
                  /\ now' = now + lag
                  /\ channelStates' = channelStates \cup {ch}
                  /\ currentVideo' = [currentVideo EXCEPT ![ch] = first]
                  /\ videoStartTime' = [videoStartTime EXCEPT ![ch] = now']
                  /\ downloads' = r.downloads
                  /\ files' = r.files
                  /\ IF r.ok
                     THEN /\ broadcasters' = broadcasters \cup {ch}
                          /\ srcPath' = [srcPath EXCEPT ![ch] = first]
                          /\ initSegment' = [initSegment EXCEPT ![ch] = first]
                          /\ clients' = [clients EXCEPT ![ch] = {}]
                          /\ pump' = [pump EXCEPT ![ch] = PumpAt("open")]
                          /\ hist' = [hist EXCEPT !.created[ch] = @ + 1]
                          /\ nextVideoByChannel' =
                                IF Len(videoList) > 1
                                THEN [nextVideoByChannel EXCEPT
                                        ![ch] = videoList[2]]
                                ELSE nextVideoByChannel
                     ELSE UNCHANGED <<broadcasters, castVars, hist,
                                      nextVideoByChannel>>
    /\ UNCHANGED <<videos, channelVideoMap, limit, demux, tasks, viewVars>>

\* InitializeWithS3Content returns: cm.mu.Unlock()
SyncEnd ==
    /\ sched.pc = "sync"
    /\ sched.todo = {}
    /\ sched' = SchedIdle
    /\ UNCHANGED <<now, videos, channelVideoMap, channelStates, currentVideo,
                   videoStartTime, broadcasters, limit, demux, hist>>
    /\ UNCHANGED <<nextVideoByChannel, tasks>>
    /\ UNCHANGED <<stagerVars, castVars, viewVars>>

(* ----------------- a Broadcaster on a file given by boxes --------------- *)

MaxOvershoot == 4    \* how far below 0 a pacing counter is followed

NoDemux == [pc |-> "none"]

NoResult == [res |-> "none", at |-> 0]

\* NewBroadcaster(2, path, _, targetBps), called by the ChannelManager for
\* channel 2: the initialization segment is extracted, and only then the
\* pump is started and the Broadcaster returned and stored.  An error
\* returns no Broadcaster; a panic is not recovered and ends the process.
DemuxNew ==
    /\ demux.pc = "new"
    /\ LET r == buildInitSegment(demux.file) IN
          /\ demux' = [demux EXCEPT
                         !.pc = CASE r.res = "ok" -> "open"
                                  [] r.res = "err" -> "failed"
                                  [] OTHER -> "crashed",
                         !.init = r.init,
                         !.last = [res |-> r.res, at |-> r.at]]
          /\ broadcasters' = IF r.res = "ok" THEN broadcasters \cup {2}
                             ELSE broadcasters
    /\ UNCHANGED <<now, videos, channelVideoMap, channelStates, currentVideo,
                   videoStartTime, sched, limit, nextVideoByChannel, tasks,
                   hist>>
    /\ UNCHANGED <<stagerVars, castVars, viewVars>>

\* loop: os.Open(b.srcPath); f.Seek(int64(len(b.initSegment)), io.SeekStart)
DemuxOpen ==
    /\ demux.pc \in {"open", "done"}
    /\ demux' = [demux EXCEPT !.pc = "read",
                              !.off = RunBytes(demux.file, demux.init),
                              !.out = <<>>]
    /\ UNCHANGED <<now, videos, channelVideoMap, channelStates, currentVideo,
                   videoStartTime, broadcasters, sched, limit,
                   nextVideoByChannel, tasks, hist>>
    /\ UNCHANGED <<stagerVars, castVars, viewVars>>

\* loop: frag, err := nextFragment(f).  io.EOF closes the file, any other
\* error clears srcPath, a fragment is fanned out and paced.
DemuxRead ==
    /\ demux.pc = "read"
    /\ LET r == nextFragmentAt(demux.file, demux.off) IN
          demux' = [demux EXCEPT
                      !.pc = CASE r.res = "frag" -> "pace"
                               [] r.res = "eof" -> "done"
                               [] r.res = "err" -> "fatal"
                               [] OTHER -> "crashed",
                      !.frag = r.frag,
                      !.out = @ \o r.frag,
                      !.off = r.next,
                      !.sent = 0,
                      !.last = [res |-> r.res, at |-> r.at]]
    /\ UNCHANGED <<now, videos, channelVideoMap, channelStates, currentVideo,
                   videoStartTime, broadcasters, sched, limit,
                   nextVideoByChannel, tasks, hist>>
    /\ UNCHANGED <<stagerVars, castVars, viewVars>>

\* Variant of the pacing loop with the test sent <= len(frag).
DemuxPaceInclusive ==
    /\ demux.pc = "pace"
    /\ demux.sent >= -MaxOvershoot
    /\ demux' = IF demux.sent <= RunBytes(demux.file, demux.frag)
                THEN [demux EXCEPT !.sent = @ + GoDiv(demux.bps, 20)]
                ELSE [demux EXCEPT !.pc = "read"]
    /\ UNCHANGED <<now, videos, channelVideoMap, channelStates, currentVideo,
                   videoStartTime, broadcasters, sched, limit,
                   nextVideoByChannel, tasks, hist>>
    /\ UNCHANGED <<stagerVars, castVars, viewVars>>

\* loop: for sent := 0; sent < len(frag); sent += bytesPerSleep
\*          { time.Sleep(sleepDur) }       with bytesPerSleep = targetBps / 20
DemuxPace ==
    /\ demux.pc = "pace"
    /\ demux.sent >= -MaxOvershoot
    /\ demux' = IF demux.sent < RunBytes(demux.file, demux.frag)
                THEN [demux EXCEPT !.sent = @ + GoDiv(demux.bps, 20)]
                ELSE [demux EXCEPT !.pc = "read"]
    /\ UNCHANGED <<now, videos, channelVideoMap, channelStates, currentVideo,
                   videoStartTime, broadcasters, sched, limit,
                   nextVideoByChannel, tasks, hist>>
    /\ UNCHANGED <<stagerVars, castVars, viewVars>>

\* A stream request for channel 2 once NewBroadcaster has returned.
DemuxAttach(v) ==
    /\ demux.pc \notin {"new", "crashed"}
    /\ Attach(v, 2)

\* Beginnings of a file (the boxes before the first moof), the items that
\* follow them, and the ways a file may end.
InitRuns == {<<Plain("ftyp"), Plain("moov")>>,
             <<Plain("ftyp"), Empty("free"), Wide("moov")>>,
             <<>>}

FragItems == {<<Plain("moof"), Plain("mdat")>>,
              <<Empty("moof"), Wide("mdat")>>,
              <<Plain("moof"), Empty("free")>>,
              <<Empty("free")>>}

RECURSIVE FragRuns(_)
FragRuns(n) ==
    IF n = 0 THEN {<<>>}
    ELSE FragRuns(n - 1) \cup
         {run \o item : run \in FragRuns(n - 1), item \in FragItems}

Endings ==
    {[boxes |-> <<>>, tail |-> t] : t \in {0, 1, 7}} \cup
    {[boxes |-> <<b>>, tail |-> 0] :
        b \in {Box("free", 2, 0, 0), Box("free", 7, 0, 3),
               Box("free", 1, 0, 0), Box("free", 1, 15, 0),
               Box("mdat", 12, 0, 1), Box("mdat", 0, 0, 2),
               Plain("moof"), Plain("mfra")}}

Files ==
    {[exists |-> TRUE, boxes |-> i \o run \o e.boxes, tail |-> e.tail] :
        i \in InitRuns, run \in FragRuns(MaxFrags), e \in Endings}
    \cup {[exists |-> FALSE, boxes |-> <<>>, tail |-> 0]}

\* Values of targetBps; the ChannelManager passes 2_000_000/8.
Rates == {-40, 0, 19, 60, 100, 250000}

(* ---------------------------- specification ---------------------------- *)

\* The state after NewChannelManager, SetVideoProvider and
\* InitializeFromDatabase: channel 1 has the playlist list, its first video
\* is staged and its Broadcaster is running; channel 2 has no videos in
\* the database and therefore no state.
\* History kept for the properties: ticks started and the clock reading
\* of the latest one, catalog refreshes started, Broadcasters created per
\* channel, rotations performed,
\* rotations performed before the outgoing video's duration had elapsed,
\* channels whose Broadcaster lock was taken by a holder of cm.mu,
\* staging failures at a rotation and the video whose staging failed last,
\* fragments emitted, the video a viewer found installed by a completed
\* rotation when it connected, viewers that had a failed write and viewers
\* that were written to again after one, the latest state-query response.
HistInit == [ticks |-> 0,
             tickAt |-> 0,
             syncs |-> 0,
             created |-> [ch \in Channels |-> 0],
             rot |-> [ch \in Channels |-> 0],
             early |-> [ch \in Channels |-> 0],
             nested |-> [ch \in Channels |-> FALSE],
             fails |-> [ch \in Channels |-> 0],
             retry |-> [ch \in Channels |-> NoVideo],
             emitted |-> [ch \in Channels |-> 0],
             joined |-> [v \in Viewers |-> NoVideo],
             failed |-> [v \in Viewers |-> FALSE],
             rewrite |-> [v \in Viewers |-> FALSE],
             reply |-> NoReply,
             update |-> NoReply]

StartedBase(list, cur, t, lim) ==
    /\ now = t
    /\ channelVideoMap = [ch \in Channels |-> IF ch = 1 THEN list ELSE <<>>]
    /\ videos = {list[i] : i \in DOMAIN list} \cup {cur}
    /\ channelStates = {1}
    /\ currentVideo = [ch \in Channels |-> IF ch = 1 THEN cur ELSE NoVideo]
    /\ videoStartTime = [ch \in Channels |-> t]
    /\ broadcasters = {1}
    /\ sched = SchedIdle
    /\ downloads = {cur}
    /\ files = {cur}
    /\ srcPath = [ch \in Channels |-> IF ch = 1 THEN cur ELSE NoPath]
    /\ initSegment = [ch \in Channels |-> IF ch = 1 THEN cur ELSE NoVideo]
    /\ clients = [ch \in Channels |-> {}]
    /\ pump = [ch \in Channels |-> PumpAt(IF ch = 1 THEN "open" ELSE "none")]
    /\ viewer = [v \in Viewers |-> ViewerAt("idle", 0)]
    /\ conn = [v \in Viewers |-> "ok"]
    /\ sink = [v \in Viewers |-> <<>>]
    /\ limit = lim
    /\ nextVideoByChannel =
          [ch \in Channels |-> IF ch = 1 /\ Len(list) > 1 THEN list[2]
                               ELSE NoVideo]
    /\ tasks = {}
    /\ hist = [HistInit EXCEPT !.created[1] = 1]

\* The same with no Broadcaster under construction.
StartedAt(list, cur, t, lim) ==
    /\ StartedBase(list, cur, t, lim)
    /\ demux = NoDemux

Started(list, lim) == StartedAt(list, list[1], 0, lim)

Playlists == {<<"A", "B">>, <<"A", "C", "B">>, <<"A", "D">>, <<"A">>,
              <<"B", "A">>}

\* Scheduler and pump, no viewer connects.
Init ==
    \E list \in Playlists :
        Started(list, [ticks |-> MaxTicks, emits |-> MaxEmit,
                       phases |-> 1..TickPeriod,
                       syncs |-> 0])

Next ==
    \/ TickStart
    \/ \E ch \in Channels : SchedCheck(ch)
    \/ SchedStage
    \/ SwitchOpen
    \/ SwitchPath
    \/ TickEnd
    \/ \E ch \in Channels : PumpOpen(ch)
    \/ \E ch \in Channels : PumpSeek(ch)
    \/ \E ch \in Channels : PumpRead(ch)
    \/ \E ch \in Channels : PumpClear(ch)
    \/ \E ch \in Channels : PumpPace(ch)

Spec == Init /\ [][Next]_vars

\* The same under fair scheduling: the ticker keeps firing, and the
\* scheduler and pump goroutines keep being run.
Fairness ==
    /\ WF_vars(TickStart)
    /\ WF_vars(\E ch \in Channels : SchedCheck(ch))
    /\ WF_vars(SchedStage)
    /\ WF_vars(SwitchOpen)
    /\ WF_vars(SwitchPath)
    /\ WF_vars(TickEnd)
    /\ \A ch \in Channels :
          /\ WF_vars(PumpOpen(ch))
          /\ WF_vars(PumpSeek(ch))
          /\ WF_vars(PumpRead(ch))
          /\ WF_vars(PumpClear(ch))
          /\ WF_vars(PumpPace(ch))

SpecFair == Spec /\ Fairness

\* Scheduler, pump and viewers on the playlist [A, B].
InitCast ==
    Started(<<"A", "B">>, [ticks |-> CastTicks, emits |-> CastEmit,
                         phases |-> {TickPeriod},
                       syncs |-> 0])

NextCast ==
    \/ Next
    \/ \E ch \in Channels : PumpWrite(ch)
    \/ \E v \in Viewers, ch \in Channels : Attach(v, ch)
    \/ \E v \in Viewers : WriteInit(v)
    \/ \E v \in Viewers : Register(v)
    \/ \E v \in Viewers : Cancel(v)
    \/ \E v \in Viewers : Detach(v)
    \/ \E v \in Viewers : Stall(v)
    \/ \E v \in Viewers : Resume(v)
    \/ \E v \in Viewers : Break(v)

SpecCast == InitCast /\ [][NextCast]_vars

\* The scheduler and the catalog refresh; the pump is left out.
InitSync ==
    \E list \in Playlists :
        Started(list, [ticks |-> SyncTicks, emits |-> 0,
                       phases |-> 1..TickPeriod, syncs |-> MaxSync])

NextSync ==
    \/ TickStart
    \/ \E ch \in Channels : SchedCheck(ch)
    \/ SchedStage
    \/ SwitchOpen
    \/ SwitchPath
    \/ TickEnd
    \/ SyncStart
    \/ \E ch \in Channels : SyncChannel(ch)
    \/ SyncEnd

SpecSync == InitSync /\ [][NextSync]_vars

\* The scheduler and the state queries; the pump is left out.
NextQuery ==
    \/ TickStart
    \/ \E ch \in Channels : SchedCheck(ch)
    \/ SchedStage
    \/ SwitchOpen
    \/ SwitchPath
    \/ TickEnd
    \/ \E ch \in Channels : GetChannelStateHandler(ch)

SpecQuery == Init /\ [][NextQuery]_vars

QueryTicks == 2    \* scheduler ticks explored next to both kinds of query

\* The scheduler with state queries over HTTP and over the WebSocket.
InitUpdate ==
    \E list \in {<<"A", "B">>, <<"A">>} :
        Started(list, [ticks |-> QueryTicks, emits |-> 0,
                       phases |-> 1..TickPeriod, syncs |-> 0])

NextUpdate ==
    \/ NextQuery
    \/ \E ch \in Channels : sendCurrentChannelState(ch)

SpecUpdate == InitUpdate /\ [][NextUpdate]_vars

(* ----------------- scheduler, first version (part_000) ----------------- *)
(* The first videoScheduler has no Broadcaster; it prefetches the cached   *)
(* next video in a goroutine, downloads the next video synchronously at    *)
(* rotation and deletes the finished one in a goroutine.                   *)

\* currentVideoProgress >= cm.prefetchThreshold, with the threshold 0.8
PastPrefetchThreshold(elapsed, duration) == 5 * elapsed >= 4 * duration

\* The inline next-video choice of the first scheduler (currentIndex loop).
nextInPlaylist(list, current) ==
    LET hits == {i \in DOMAIN list : list[i] = current}
        currentIndex == IF hits = {} THEN -1
                        ELSE (CHOOSE i \in hits : \A j \in hits : i <= j) - 1
    IN IF currentIndex >= 0 /\ currentIndex + 1 < Len(list)
       THEN list[currentIndex + 2]
       ELSE list[1]

\* One iteration of the first scheduler's range loop for a channel whose
\* CurrentVideo is set: prefetch check, rotation check, synchronous
\* download (its error is only printed), state update, deletion goroutine.
V1Check(ch) ==
    /\ sched.pc = "chan"
    /\ ch \in sched.todo
    /\ currentVideo[ch] # NoVideo
    /\ LET cur == currentVideo[ch]
           list == channelVideoMap[ch]
           elapsed == now - videoStartTime[ch]
           hint == nextVideoByChannel[ch]
           prefetch == IF /\ PastPrefetchThreshold(elapsed, Duration(cur))
                          /\ hint # NoVideo
                          /\ hint \notin downloads
                       THEN {[kind |-> "prefetch", ch |-> ch, key |-> hint,
                              at |-> now]}
                       ELSE {}
       IN IF elapsed >= Duration(cur)
          THEN \E next \in (IF Len(list) = 0 THEN videos
                            ELSE {nextInPlaylist(list, cur)}) :
               \E r \in (IF next \in downloads
                         THEN {[ok |-> TRUE, downloads |-> downloads,
                                files |-> files]}
                         ELSE DownloadVideo(next)) :
                  /\ nextVideoByChannel' =
                        IF Len(list) > 1
                        THEN [nextVideoByChannel EXCEPT
                                ![ch] = nextInPlaylist(list, next)]
                        ELSE nextVideoByChannel
                  /\ downloads' = r.downloads
                  /\ files' = r.files
                  /\ currentVideo' = [currentVideo EXCEPT ![ch] = next]
                  /\ videoStartTime' = [videoStartTime EXCEPT ![ch] = now]
                  /\ hist' = [hist EXCEPT
                                !.rot[ch] = @ + 1,
                                !.fails[ch] = IF r.ok THEN @ ELSE @ + 1,
                                !.retry[ch] = IF r.ok THEN NoVideo ELSE next]
                  /\ tasks' = tasks \cup prefetch \cup
                                {[kind |-> "evict", ch |-> ch, key |-> cur,
                                  at |-> now]}
          ELSE /\ tasks' = tasks \cup prefetch
               /\ UNCHANGED <<nextVideoByChannel, downloads, files,
                              currentVideo, videoStartTime, hist>>
    /\ sched' = Continue(ch)
    /\ UNCHANGED <<now, videos, channelVideoMap, channelStates, broadcasters,
                   limit, demux>>
    /\ UNCHANGED <<castVars, viewVars>>

\* go func(s3Key) { cm.videoProvider.DownloadVideo(s3Key) }: the prefetch.
PrefetchRun(t) ==
    /\ t \in tasks
    /\ t.kind = "prefetch"
    /\ \E r \in DownloadVideo(t.key) :
          /\ downloads' = r.downloads
          /\ files' = r.files
    /\ tasks' = tasks \ {t}
    /\ UNCHANGED <<now, videos, channelVideoMap, channelStates, currentVideo,
                   videoStartTime, broadcasters, sched, limit, demux,
                   nextVideoByChannel, hist>>
    /\ UNCHANGED <<castVars, viewVars>>

\* S3Manager.DeleteVideo(s3Key): nothing when the file is absent; otherwise
\* the file is removed and the key untracked, unless os.Remove fails.
DeleteVideo(k) ==
    IF k \notin files
    THEN {[downloads |-> downloads, files |-> files]}
    ELSE {[downloads |-> downloads \ {k}, files |-> files \ {k}],
          [downloads |-> downloads, files |-> files]}

\* go func(s3Key) { time.Sleep(2 * time.Second); DeleteVideo(s3Key) }
EvictRun(t) ==
    /\ t \in tasks
    /\ t.kind = "evict"
    /\ \E r \in DeleteVideo(t.key) :
          /\ downloads' = r.downloads
          /\ files' = r.files
    /\ tasks' = tasks \ {t}
    /\ UNCHANGED <<now, videos, channelVideoMap, channelStates, currentVideo,
                   videoStartTime, broadcasters, sched, limit, demux,
                   nextVideoByChannel, hist>>
    /\ UNCHANGED <<castVars, viewVars>>

\* The state after the first version's InitializeFromDatabase: every channel
\* with videos starts on its first video; nothing is downloaded yet.
InitV1 ==
    /\ now = 0
    /\ \E l1 \in {<<"A", "B">>, <<"A">>},
          l2 \in {<<>>, <<"A", "D">>} :
          /\ channelVideoMap = [ch \in Channels |-> IF ch = 1 THEN l1 ELSE l2]
          /\ channelStates = {ch \in Channels : ch = 1 \/ l2 # <<>>}
          /\ videos = {l1[i] : i \in DOMAIN l1} \cup {l2[i] : i \in DOMAIN l2}
    /\ currentVideo = [ch \in Channels |->
                         IF ch \in channelStates THEN channelVideoMap[ch][1]
                         ELSE NoVideo]
    /\ nextVideoByChannel = [ch \in Channels |->
                               IF Len(channelVideoMap[ch]) > 1
                               THEN channelVideoMap[ch][2] ELSE NoVideo]
    /\ videoStartTime = [ch \in Channels |-> 0]
    /\ broadcasters = {}
    /\ sched = SchedIdle
    /\ downloads = {}
    /\ files = {}
    /\ srcPath = [ch \in Channels |-> NoPath]
    /\ initSegment = [ch \in Channels |-> NoVideo]
    /\ clients = [ch \in Channels |-> {}]
    /\ pump = [ch \in Channels |-> PumpAt("none")]
    /\ viewer = [v \in Viewers |-> ViewerAt("idle", 0)]
    /\ conn = [v \in Viewers |-> "ok"]
    /\ sink = [v \in Viewers |-> <<>>]
    /\ limit = [ticks |-> V1Ticks, emits |-> 0, phases |-> 1..TickPeriod,
                       syncs |-> 0]
    /\ tasks = {}
    /\ demux = NoDemux
    /\ hist = HistInit

NextV1 ==
    \/ TickStart
    \/ \E ch \in Channels : V1Check(ch)
    \/ TickEnd
    \/ \E t \in tasks : PrefetchRun(t)
    \/ \E t \in tasks : EvictRun(t)

SpecV1 == InitV1 /\ [][NextV1]_vars

(* ----------------- the scheduler over two channels --------------------- *)

DuoTicks == 2    \* scheduler ticks explored with two channels

\* InitializeWithS3Content has given both channels a playlist, a state on
\* the first entry and a Broadcaster; the pump of channel 2 may since have
\* cleared its source path.  The pumps are left out.
InitDuo ==
    /\ now = 0
    /\ \E l1 \in {<<"A", "B">>, <<"B", "A">>},
          l2 \in {<<"A", "C">>, <<"A">>} :
          channelVideoMap = [ch \in Channels |-> IF ch = 1 THEN l1 ELSE l2]
    /\ channelStates = Channels
    /\ videos = UNION {{channelVideoMap[ch][i] : i \in DOMAIN channelVideoMap[ch]}
                          : ch \in Channels}
    /\ currentVideo = [ch \in Channels |-> channelVideoMap[ch][1]]
    /\ nextVideoByChannel = [ch \in Channels |->
                               IF Len(channelVideoMap[ch]) > 1
                               THEN channelVideoMap[ch][2] ELSE NoVideo]
    /\ videoStartTime = [ch \in Channels |-> 0]
    /\ broadcasters = Channels
    /\ sched = SchedIdle
    /\ downloads = {currentVideo[ch] : ch \in Channels}
    /\ files = downloads
    /\ \E cleared \in BOOLEAN :
          srcPath = [ch \in Channels |->
                        IF ch = 2 /\ cleared THEN NoPath ELSE currentVideo[ch]]
    /\ initSegment = currentVideo
    /\ clients = [ch \in Channels |-> {}]
    /\ pump = [ch \in Channels |-> PumpAt("none")]
    /\ viewer = [v \in Viewers |-> ViewerAt("idle", 0)]
    /\ conn = [v \in Viewers |-> "ok"]
    /\ sink = [v \in Viewers |-> <<>>]
    /\ limit = [ticks |-> DuoTicks, emits |-> 0, phases |-> 1..TickPeriod,
                syncs |-> 0]
    /\ tasks = {}
    /\ demux = NoDemux
    /\ hist = [HistInit EXCEPT !.created = [ch \in Channels |-> 1]]

NextDuo ==
    \/ TickStart
    \/ \E ch \in Channels : SchedCheck(ch)
    \/ SchedStage
    \/ SwitchOpen
    \/ SwitchPath
    \/ TickEnd

SpecDuo == InitDuo /\ [][NextDuo]_vars

(* ------------------ a channel with an empty playlist ------------------- *)

FallbackTicks == 2    \* scheduler ticks explored with an empty playlist

\* Channel 1 has a state on A and a Broadcaster from an earlier
\* initialization; a later InitializeWithS3Content has stored a catalog with
\* no video of the channel, or with no video at all, and has therefore
\* passed the channel over, leaving its state in place.  The pump has
\* cleared the source path or not.  The pumps are left out.
InitFallback ==
    /\ now = 0
    /\ channelVideoMap = [ch \in Channels |-> <<>>]
    /\ videos \in SUBSET {"B", "C"}
    /\ channelStates = {1}
    /\ currentVideo = [ch \in Channels |-> IF ch = 1 THEN "A" ELSE NoVideo]
    /\ nextVideoByChannel = [ch \in Channels |-> NoVideo]
    /\ videoStartTime = [ch \in Channels |-> 0]
    /\ broadcasters \in {{}, {1}}
    /\ sched = SchedIdle
    /\ downloads = {"A"}
    /\ files = {"A"}
    /\ \E cleared \in BOOLEAN :
          srcPath = [ch \in Channels |->
                        IF ch \in broadcasters /\ ~cleared THEN "A" ELSE NoPath]
    /\ initSegment = [ch \in Channels |->
                        IF ch \in broadcasters THEN "A" ELSE NoVideo]
    /\ clients = [ch \in Channels |-> {}]
    /\ pump = [ch \in Channels |-> PumpAt("none")]
    /\ viewer = [v \in Viewers |-> ViewerAt("idle", 0)]
    /\ conn = [v \in Viewers |-> "ok"]
    /\ sink = [v \in Viewers |-> <<>>]
    /\ limit = [ticks |-> FallbackTicks, emits |-> 0, phases |-> 1..TickPeriod,
                syncs |-> 0]
    /\ tasks = {}
    /\ demux = NoDemux
    /\ hist = [HistInit EXCEPT !.created =
                  [ch \in Channels |-> IF ch \in broadcasters THEN 1 ELSE 0]]

NextFallback ==
    \/ TickStart
    \/ \E ch \in Channels : SchedCheck(ch)
    \/ SchedStage
    \/ SwitchOpen
    \/ SwitchPath
    \/ TickEnd

SpecFallback == InitFallback /\ [][NextFallback]_vars

(* ------------- construction and pump on a file of boxes --------------- *)

\* Channel 1 runs on the playlist [A]; a Broadcaster for channel 2 is
\* about to be constructed on one of the files with one of the rates.
InitDemux ==
    /\ StartedBase(<<"A">>, "A", 0, [ticks |-> 0, emits |-> 0,
                                     phases |-> {}, syncs |-> 0])
    /\ \E f \in Files, bps \in Rates :
          demux = [pc |-> "new", file |-> f, bps |-> bps, init |-> <<>>,
                   off |-> 0, out |-> <<>>, frag |-> <<>>, sent |-> 0,
                   last |-> NoResult]

NextDemux ==
    \/ DemuxNew
    \/ DemuxOpen
    \/ DemuxRead
    \/ DemuxPace
    \/ \E v \in Viewers : DemuxAttach(v)

SpecDemux == InitDemux /\ [][NextDemux]_vars

(* ----------------- pickNextVideo on arbitrary inputs ------------------- *)

MaxList == 3       \* longest playlist drawn for pickNextVideo

AnyPlaylists == UNION {[1..n -> Videos] : n \in 0..MaxList}

\* Any playlist (repeated entries included), any current video, any
\* catalog, at any time of the clock.
InitPick ==
    \E list \in AnyPlaylists, cur \in Videos, t \in 0..1 :
        StartedAt(list, cur, t, [ticks |-> 0, emits |-> 0, phases |-> {},
                       syncs |-> 0])

\* next := cm.pickNextVideo(chNum, st.CurrentVideo)
Pick ==
    /\ sched.pc = "idle"
    /\ \E next \in pickNextVideo(1, currentVideo[1]) :
          sched' = [SchedIdle EXCEPT !.pc = "picked", !.ch = 1, !.next = next]
    /\ UNCHANGED <<now, videos, channelVideoMap, channelStates, currentVideo,
                   videoStartTime, broadcasters, limit, demux, hist>>
    /\ UNCHANGED <<nextVideoByChannel, tasks>>
    /\ UNCHANGED <<stagerVars, castVars, viewVars>>

NextPick == Pick

SpecPick == InitPick /\ [][NextPick]_vars

(* ------------------------------ properties ----------------------------- *)

\* Position of the first occurrence of v in list, 0 when it does not occur.
IndexOf(list, v) ==
    IF \E i \in DOMAIN list : list[i] = v
    THEN CHOOSE i \in DOMAIN list :
            list[i] = v /\ \A j \in 1..(i - 1) : list[j] # v
    ELSE 0

\* The next-video rule of the specification.
Successor(list, v) ==
    LET i == IndexOf(list, v) IN
    IF i = 0 \/ i = Len(list) THEN list[1] ELSE list[i + 1]

\* C1: for a non-empty playlist pickNextVideo returns the entry after the
\* current video, the first entry when the current video is last or is not
\* in the playlist; the result is a function of playlist and current video.
C1_PickNextRule ==
    (sched.pc = "picked" /\ Len(channelVideoMap[1]) > 0) =>
        sched.next = Successor(channelVideoMap[1], currentVideo[1])

\* C1 witness: a pick was made for a current video that is not in the
\* non-empty playlist, and returned the first entry.
C1_Witness ==
    /\ sched.pc = "picked"
    /\ Len(channelVideoMap[1]) = MaxList
    /\ IndexOf(channelVideoMap[1], currentVideo[1]) = 0
    /\ sched.next = channelVideoMap[1][1]

\* C2: k successful rotations from index i leave the channel at index
\* (i + k) mod L; every channel starts at the first entry of its playlist.
C2_RotationWraps ==
    \A ch \in channelStates :
        LET list == channelVideoMap[ch] IN
        Len(list) > 0 =>
            IndexOf(list, currentVideo[ch]) = (hist.rot[ch] % Len(list)) + 1

\* C2 witness: more rotations than the playlist is long, on a playlist of
\* at least two entries.
C2_Witness ==
    \E ch \in channelStates :
          /\ Len(channelVideoMap[ch]) >= 2
          /\ hist.rot[ch] > Len(channelVideoMap[ch])

\* C3: a staging failure at a rotation tick leaves the channel's
\* currentVideo, videoStartTime and the Broadcaster's source path unchanged.
C3_StagingFailureKeepsState ==
    [][\A ch \in Channels :
          hist'.fails[ch] > hist.fails[ch] =>
              /\ currentVideo'[ch] = currentVideo[ch]
              /\ videoStartTime'[ch] = videoStartTime[ch]
              /\ srcPath'[ch] = srcPath[ch]]_vars

\* C3 (second scheduler): after a staging failure the same rotation is
\* attempted again when the next tick reaches the channel.
C3_RetriedOnNextTick ==
    [][\A ch \in Channels :
          ( /\ sched.pc = "chan"
            /\ ch \in sched.todo
            /\ \/ sched'.pc = "chan" /\ sched'.todo = sched.todo \ {ch}
               \/ sched'.pc = "stage" /\ sched'.ch = ch
            /\ hist.retry[ch] # NoVideo )
          => (sched'.pc = "stage" /\ sched'.ch = ch
              /\ sched'.next = hist.retry[ch])]_vars

\* C4: a demux error makes the pump clear the source path to the sentinel;
\* a tick that finds the sentinel picks the playlist successor and stages
\* it whatever the elapsed time, calls SwitchSource once staging succeeded,
\* and when SwitchSource has installed the path the channel's currentVideo
\* is that video and the source path is no longer the sentinel.
C4_FatalRecovery ==
    [][\A ch \in broadcasters :
          /\ (pump[ch].pc = "clear" /\ pump'[ch].pc # "clear")
                => srcPath'[ch] = NoPath
          /\ ( /\ sched.pc = "chan"
               /\ ch \in sched.todo
               /\ sched' # sched
               /\ srcPath[ch] = NoPath )
                => /\ sched'.pc = "stage"
                   /\ sched'.ch = ch
                   /\ sched'.next =
                         Successor(channelVideoMap[ch], currentVideo[ch])
          /\ ( /\ sched.pc = "stage"
               /\ sched.ch = ch
               /\ sched.fatal
               /\ sched' # sched
               /\ hist'.fails[ch] = hist.fails[ch] )
                => sched'.pc = "sw_open"
          /\ ( /\ sched.pc = "sw_path"
               /\ sched.ch = ch
               /\ sched.fatal
               /\ sched' # sched )
                => /\ currentVideo'[ch] = sched.next
                   /\ srcPath'[ch] = sched.next
                   /\ srcPath'[ch] # NoPath]_vars

\* C4 witness: a channel was rotated before its current video had run for
\* its duration, and its Broadcaster now plays the new current video.
C4_Witness ==
    \E ch \in broadcasters :
        /\ hist.early[ch] > 0
        /\ sched.pc = "idle"
        /\ srcPath[ch] = currentVideo[ch]

\* C5: whatever a viewer's sink receives first is written by AddClient and
\* is the initialization segment cached at that moment; every later write
\* goes to a sink that already starts with an initialization segment.
C5_InitSegmentFirst ==
    [][\A v \in Viewers :
          sink'[v] # sink[v] =>
              IF viewer[v].pc = "hdr"
              THEN /\ sink[v] = <<>>
                   /\ sink'[v] = <<<<"init", initSegment[viewer[v].ch]>>>>
              ELSE /\ sink[v] # <<>>
                   /\ Head(sink[v])[1] = "init"]_vars

\* C5, ordering part alone: no sink starts with a media fragment.
C5_NoFragmentBeforeInit ==
    \A v \in Viewers : sink[v] # <<>> => Head(sink[v])[1] = "init"

\* C6: a viewer whose fragment write failed gets no write attempt for any
\* later fragment.
C6_FailedViewerRemoved ==
    \A v \in Viewers : ~hist.rewrite[v]

\* C7: while the fan-out waits on a stalled viewer, no other viewer is
\* waiting for the same fragment, no other viewer's registration or
\* removal is pending on the channel, and the scheduler is not about to
\* read the channel's current source.
C7_SlowViewerHarmsOnlyItself ==
    \A ch \in Channels :
        ( /\ pump[ch].pc = "fanout"
          /\ pump[ch].pending # <<>>
          /\ conn[Head(pump[ch].pending)] = "slow" )
        => /\ Len(pump[ch].pending) = 1
           /\ \A w \in Viewers :
                 viewer[w].ch = ch => viewer[w].pc \notin {"reg", "leaving"}
           /\ ~(sched.pc = "chan" /\ ch \in sched.todo)

\* C8: a viewer that connected after a completed rotation to a video that
\* is still the channel's current video has received that video's
\* initialization segment followed only by fragments of that video's file.
C8_AfterRotationOnlyNewVideo ==
    \A v \in Viewers :
        ( /\ hist.joined[v] # NoVideo
          /\ currentVideo[viewer[v].ch] = hist.joined[v] )
        => \A i \in DOMAIN sink[v] :
              IF i = 1
              THEN sink[v][i] = <<"init", hist.joined[v]>>
              ELSE /\ sink[v][i][1] = "frag"
                   /\ sink[v][i][2][1] = hist.joined[v]

\* C9: the pump never reads a file after skipping the initialization
\* segment length of another file.
C9_SwitchSourceAtomic ==
    \A ch \in Channels :
        pump[ch].pc \in {"read", "fanout", "clear"} =>
            pump[ch].skip = pump[ch].file

\* C10: a SwitchSource call whose open fails, or whose file yields no
\* initialization segment, leaves the cached initialization segment and
\* the recorded source path as they were.
C10_FailedSwitchChangesNothing ==
    [][\A ch \in Channels :
          ( /\ sched.ch = ch
            /\ sched.pc \in {"sw_open", "sw_path"}
            /\ sched' # sched
            /\ \/ ~Sniffable(sched.next)
               \/ sched.pc = "sw_open" /\ sched'.pc # "sw_path" )
          => /\ srcPath'[ch] = srcPath[ch]
             /\ initSegment'[ch] = initSegment[ch]]_vars

C12_LocksNeverNest ==
    \A ch \in Channels : ~hist.nested[ch]

\* Some step of the scheduler's tick can be taken.
TickCanProceed ==
    \/ ENABLED (\E ch \in Channels : SchedCheck(ch))
    \/ ENABLED SchedStage
    \/ ENABLED SwitchOpen
    \/ ENABLED SwitchPath
    \/ ENABLED TickEnd

\* C13: the waits between the tasks never form a cycle.  The pump, while
\* it holds b.mu, waits for no lock (at most for a stalled connection);
\* the scheduler, while it holds cm.mu, waits at most for a b.mu held by
\* the pump; a viewer in AddClient waits at most for a b.mu held by the
\* pump.
C13_NoLockDeadlock ==
    /\ \A ch \in Channels :
          muHeld(ch) =>
              \/ ENABLED PumpWrite(ch)
              \/ ENABLED PumpPace(ch)
              \/ /\ pump[ch].pending # <<>>
                 /\ conn[Head(pump[ch].pending)] = "slow"
    /\ sched.pc \in {"chan", "stage", "sw_open", "sw_path"} =>
          \/ TickCanProceed
          \/ /\ sched.pc = "chan"
             /\ \E ch \in sched.todo \cap broadcasters : muHeld(ch)
    /\ \A v \in Viewers :
          viewer[v].pc \in {"reg", "leaving"} =>
              \/ ENABLED Register(v)
              \/ ENABLED Detach(v)
              \/ muHeld(viewer[v].ch)

\* C13 witness: the scheduler, holding cm.mu, and a viewer in AddClient
\* both wait for the b.mu that the pump holds during a fan-out.
C13_Witness ==
    /\ sched.pc = "chan"
    /\ 1 \in sched.todo
    /\ muHeld(1)
    /\ pump[1].pending # <<>>
    /\ \E v \in Viewers : viewer[v] = ViewerAt("reg", 1)

\* C14: a rotation starts the next video at the clock reading of the tick
\* that performs it, and a state query answered afterwards reports the
\* new current video with the time passed since that reading.
C14_RotationAtTickTime ==
    [][/\ \A ch \in Channels :
             hist'.rot[ch] > hist.rot[ch] =>
                 /\ videoStartTime'[ch] = now
                 /\ currentVideo'[ch] = sched.next
       /\ (hist'.reply # hist.reply /\ hist'.reply.video # NoVideo) =>
             LET r == hist'.reply IN
             /\ r.video = currentVideo[r.ch]
             /\ r.at - videoStartTime[r.ch] <= Duration(r.video)
                   => r.currentTime = r.at - videoStartTime[r.ch]]_vars

\* C14 witness: A (4 s) started at 0, the tick at 5 rotated to B, and a
\* query at 6 reported B with one second elapsed.
C14_Witness ==
    /\ currentVideo[1] = "B"
    /\ videoStartTime[1] = 5
    /\ hist.rot[1] = 1
    /\ hist.reply = [ch |-> 1, video |-> "B", currentTime |-> 1, at |-> 6]

\* C15: when the tick reaches a channel whose Broadcaster is not stalled
\* and whose current video has not run for its duration, it moves on
\* without staging anything; currentVideo and videoStartTime change, and
\* SwitchSource is entered, only in a tick that found the video expired
\* (or the Broadcaster stalled).
C15_NoRotationBeforeDuration ==
    [][\A ch \in Channels :
          LET elapsed == now - videoStartTime[ch]
              expired == /\ currentVideo[ch] # NoVideo
                         /\ elapsed >= Duration(currentVideo[ch])
          IN /\ ( /\ sched.pc = "chan"
                  /\ ch \in sched.todo
                  /\ sched' # sched
                  /\ sched'.ch = ch \/ ch \notin sched'.todo
                  /\ ch \in broadcasters => srcPath[ch] # NoPath
                  /\ ~expired )
                   => /\ sched'.pc = "chan"
                      /\ currentVideo'[ch] = currentVideo[ch]
                      /\ videoStartTime'[ch] = videoStartTime[ch]
             /\ ( \/ currentVideo'[ch] # currentVideo[ch]
                  \/ videoStartTime'[ch] # videoStartTime[ch]
                  \/ /\ sched'.pc = "sw_open"
                     /\ sched.pc # "sw_open"
                     /\ sched'.ch = ch )
                   => (sched.fatal \/ expired)]_vars

\* C15 witness: a tick has gone through channel 1 while its Broadcaster
\* was not stalled and A had not run for its duration, and the channel is
\* still on A, started at 0.
C15_Witness ==
    /\ sched.pc = "chan"
    /\ sched.todo = {}
    /\ hist.ticks >= 1
    /\ srcPath[1] = "A"
    /\ currentVideo[1] = "A"
    /\ videoStartTime[1] = 0
    /\ hist.rot[1] = 0
    /\ hist.fails[1] = 0
    /\ now < Duration("A")

\* C16: while channel 1 has not been rotated and no SwitchSource is under
\* way, its first video stays current, stays the Broadcaster's source and
\* stays on disk for the pump to reopen; and in a behaviour in which the
\* staging of the next video succeeds, an expired first video leads to a
\* rotation.
C16_ExpiredEventuallyRotates ==
    /\ []( (hist.rot[1] = 0 /\ sched.pc \notin {"sw_open", "sw_path"})
              => /\ currentVideo[1] = channelVideoMap[1][1]
                 /\ srcPath[1] = currentVideo[1]
                 /\ currentVideo[1] \in files )
    /\ <>(sched.pc = "sw_open" /\ sched.ch = 1 /\ hist.rot[1] = 0)
          => ( ( /\ hist.rot[1] = 0
                 /\ now - videoStartTime[1] >= Duration(currentVideo[1]) )
               ~> hist.rot[1] >= 1 )

\* C16 witness: the staging of B failed at one tick, succeeded at a later
\* one, and the channel then rotated from A to B.
C16_Witness ==
    /\ hist.fails[1] >= 1
    /\ hist.rot[1] = 1
    /\ currentVideo[1] = "B"
    /\ srcPath[1] = "B"
    /\ videoStartTime[1] > TickPeriod

\* C17: when the tick goes through a channel, it issues no prefetch
\* request if the current video is below the prefetch threshold or the
\* playlist's next entry is already local, and exactly one request, for
\* that next entry, if the threshold is reached and the entry is not local.
C17_PrefetchAtThreshold ==
    [][\A ch \in channelStates :
          LET elapsed == now - videoStartTime[ch]
              next == Successor(channelVideoMap[ch], currentVideo[ch])
              issued == {t \in tasks' \ tasks : t.kind = "prefetch"}
          IN ( /\ sched.pc = "chan"
               /\ ch \in sched.todo
               /\ sched' # sched
               /\ sched'.ch = ch \/ ch \notin sched'.todo
               /\ currentVideo[ch] # NoVideo
               /\ Len(channelVideoMap[ch]) > 0 )
             => IF /\ PastPrefetchThreshold(elapsed, Duration(currentVideo[ch]))
                   /\ next \notin downloads
                THEN issued = {[kind |-> "prefetch", ch |-> ch, key |-> next,
                               at |-> now]}
                ELSE issued = {}]_vars

\* C18: a rotation starts an eviction task for the video that has just
\* finished, and the step that rotates does not itself delete the file.
C18_RotationSchedulesEviction ==
    [][\A ch \in Channels :
          hist'.rot[ch] > hist.rot[ch] =>
              /\ \E t \in tasks' \ tasks :
                    t.kind = "evict" /\ t.key = currentVideo[ch]
              /\ currentVideo[ch] \in files => currentVideo[ch] \in files']_vars

\* C19: no step lowers a channel's videoStartTime, and a channel's current
\* video, whenever one is set, has a duration above 0.
C19_StartTimeMonotonic ==
    [][\A ch \in Channels :
          /\ videoStartTime'[ch] >= videoStartTime[ch]
          /\ currentVideo[ch] # NoVideo => Duration(currentVideo[ch]) > 0
          /\ currentVideo'[ch] # NoVideo => Duration(currentVideo'[ch]) > 0]_vars

\* C19 witness: channel 1 rotated, a catalog refresh then restarted it at a
\* later clock reading, and its current video is the one whose stored
\* duration is unknown.
C19_Witness ==
    /\ hist.rot[1] > 0
    /\ hist.syncs > 0
    /\ sched.pc = "idle"
    /\ videoStartTime[1] > TickPeriod
    /\ currentVideo[1] = "D"
    /\ StoredDuration("D") = 0

\* C20: at most one Broadcaster is ever created for a channel.
C20_OneBroadcasterPerChannel ==
    \A ch \in Channels : hist.created[ch] <= 1

\* C21: a catalog refresh leaves the playback state of a channel that
\* already has one as it is: neither its current video nor its start time
\* changes while InitializeWithS3Content runs.
C21_RefreshKeepsChannelState ==
    [][sched.pc = "sync" =>
         \A ch \in channelStates :
            /\ ch \in channelStates'
            /\ currentVideo'[ch] = currentVideo[ch]
            /\ videoStartTime'[ch] = videoStartTime[ch]]_vars

\* The pump of the Broadcaster under construction has been started.
DemuxRunning == demux.pc \in {"open", "read", "pace", "done", "fatal"}

\* C22: a Broadcaster whose pacing quota targetBps/20 is not positive is
\* never returned and its pump is never started.
C22_InvalidPacingRejected ==
    (demux.pc # "none" /\ GoDiv(demux.bps, 20) <= 0) =>
        /\ ~DemuxRunning
        /\ 2 \notin broadcasters

\* The framing at offset off of f: fewer than 8 bytes left, a size field of
\* 2 to 7, an extended size below 16, or none of these.
Framing(f, off) ==
    LET rem == FileLen(f) - off
        i == BoxAt(f, off)
    IN IF rem \in 1..7 THEN "truncated"
       ELSE IF i = 0 THEN "end"
       ELSE IF f.boxes[i].size32 \in 2..7 THEN "small32"
       ELSE IF f.boxes[i].size32 = 1 /\ f.boxes[i].ext < 16 THEN "small64"
       ELSE "other"

\* The boxes before the first moof of f, all of f's boxes when it has none.
InitBoxes(f) ==
    IF \E i \in DOMAIN f.boxes : f.boxes[i].typ = "moof"
    THEN 1..((CHOOSE i \in DOMAIN f.boxes :
                 /\ f.boxes[i].typ = "moof"
                 /\ \A j \in 1..(i - 1) : f.boxes[j].typ # "moof") - 1)
    ELSE DOMAIN f.boxes

\* Extraction of the initialization segment of f cannot succeed: the file
\* cannot be opened, it holds no moof, or the framing before its first
\* moof is malformed.
ExtractionFails(f) ==
    \/ ~f.exists
    \/ \A i \in DOMAIN f.boxes : f.boxes[i].typ # "moof"
    \/ \E i \in InitBoxes(f) :
          Framing(f, OffsetOf(f.boxes, i)) \in {"small32", "small64"}

\* C23: when the extraction of the initialization segment fails,
\* NewBroadcaster returns an error: no pump runs, no Broadcaster is stored
\* for the channel and a stream request for it is answered as offline.
C23_FailedExtractionIsOffline ==
    (demux.pc \notin {"none", "new"} /\ ExtractionFails(demux.file)) =>
        /\ demux.pc = "failed"
        /\ 2 \notin broadcasters
        /\ \A v \in Viewers : viewer[v].ch = 2 => viewer[v].pc = "offline"

\* Every box of f is framed consistently, nothing follows the last box,
\* f has a moof, every moof is immediately followed by an mdat and every
\* mdat after the first moof immediately follows a moof.
WellFormed(f) ==
    /\ f.exists
    /\ f.tail = 0
    /\ \A i \in DOMAIN f.boxes :
          LET b == f.boxes[i] IN
          /\ IF b.size32 = 1 THEN b.ext = 16 + b.body
             ELSE b.size32 = 8 + b.body
          /\ b.typ = "moof" =>
                i < Len(f.boxes) /\ f.boxes[i + 1].typ = "mdat"
          /\ (b.typ = "mdat" /\ i \notin InitBoxes(f)) =>
                f.boxes[i - 1].typ = "moof"
    /\ \E i \in DOMAIN f.boxes : f.boxes[i].typ = "moof"

\* The ftyp, moov, moof and mdat boxes of a run of box indices, in order.
MediaBoxes(f, run) ==
    SelectSeq(run, LAMBDA i : f.boxes[i].typ \in {"ftyp", "moov", "moof", "mdat"})

C25_MalformedFramingIsError ==
    (demux.pc # "none" /\ demux.last.res # "none"
        /\ Framing(demux.file, demux.last.at) \in
              {"truncated", "small32", "small64"}) =>
        /\ demux.last.res = "err"
        /\ demux.pc # "crashed"

\* now - videoStartTime cut to the interval from 0 to the duration.
Clamped(x, hi) == IF x < 0 THEN 0 ELSE IF x > hi THEN hi ELSE x

\* C26: the elapsed offset of a state response and of a videoUpdate is the
\* handler's clock minus the channel's videoStartTime, cut to the interval
\* from 0 to the duration of the current video.
C26_ElapsedIsClamped ==
    [][/\ (hist'.reply # hist.reply /\ hist'.reply.video # NoVideo) =>
             LET r == hist'.reply IN
             /\ r.video = currentVideo[r.ch]
             /\ r.currentTime = Clamped(r.at - videoStartTime[r.ch],
                                        Duration(r.video))
             /\ r.currentTime >= 0 /\ r.currentTime <= Duration(r.video)
       /\ (hist'.update # hist.update /\ hist'.update.video # NoVideo) =>
             LET r == hist'.update IN
             /\ r.video = currentVideo[r.ch]
             /\ r.currentTime = Clamped(r.at - videoStartTime[r.ch],
                                        Duration(r.video))
             /\ r.currentTime >= 0 /\ r.currentTime <= Duration(r.video)
      ]_vars

\* C26 witness: a state response taken while the video was playing reported
\* the time since its start, and a videoUpdate taken after its nominal end
\* reported the duration.
C26_Witness ==
    /\ hist.reply.video = "B"
    /\ hist.reply.currentTime = hist.reply.at - videoStartTime[1]
    /\ hist.reply.currentTime \in 1..(Duration("B") - 1)
    /\ hist.update.video = "A"
    /\ hist.update.at > Duration("A")
    /\ hist.update.currentTime = Duration("A")

\* The media fragments written to a sink, in the order of the writes.
FragsOf(q) == SelectSeq(q, LAMBDA e : e[1] = "frag")

IsSuffix(a, b) ==
    /\ Len(a) <= Len(b)
    /\ \A i \in DOMAIN a : a[i] = b[Len(b) - Len(a) + i]

\* One step of the fan-out of channel ch: the range starts over exactly the
\* registered viewers, each once; the set does not change while it runs; a
\* write appends the pump's fragment to the sink of the next viewer of the
\* range; no fragment reaches a sink of the channel in any other way.
FanOutStep(ch) ==
    /\ (pump[ch].pc = "read" /\ pump'[ch].pc = "fanout") =>
          /\ Len(pump'[ch].pending) = Cardinality(clients[ch])
          /\ {pump'[ch].pending[i] : i \in DOMAIN pump'[ch].pending}
                = clients[ch]
    /\ pump[ch].pc = "fanout" =>
          /\ clients'[ch] = clients[ch]
          /\ (pump'[ch] # pump[ch] /\ pump'[ch].pc = "fanout") =>
                /\ pump[ch].pending # <<>>
                /\ pump'[ch].frag = pump[ch].frag
                /\ pump'[ch].pending = Tail(pump[ch].pending)
          /\ pump'[ch].pc # "fanout" => pump[ch].pending = <<>>
    /\ \A v \in clients[ch] :
          FragsOf(sink'[v]) # FragsOf(sink[v]) =>
             /\ pump[ch].pc = "fanout"
             /\ pump[ch].pending # <<>>
             /\ v = Head(pump[ch].pending)
             /\ sink'[v] = Append(sink[v], <<"frag", pump[ch].frag>>)
    /\ ( /\ pump[ch].pc = "fanout"
         /\ pump'[ch] # pump[ch]
         /\ pump[ch].pending # <<>>
         /\ conn[Head(pump[ch].pending)] = "ok" ) =>
          sink'[Head(pump[ch].pending)] # sink[Head(pump[ch].pending)]

\* C27: every fragment the pump emits is written once, in the order of
\* emission, to every viewer registered at that moment; of two registered
\* viewers with working connections, between two fan-outs, the fragments
\* of the one are the latest fragments of the other.
C27_SameFragmentsForAll ==
    /\ [][\A ch \in Channels : FanOutStep(ch)]_vars
    /\ [](\A ch \in Channels : \A v, w \in clients[ch] :
            ( /\ pump[ch].pc # "fanout"
              /\ conn[v] = "ok" /\ conn[w] = "ok"
              /\ ~hist.failed[v] /\ ~hist.failed[w] )
            => \/ IsSuffix(FragsOf(sink[v]), FragsOf(sink[w]))
               \/ IsSuffix(FragsOf(sink[w]), FragsOf(sink[v])))

\* C27 witness: two viewers are registered on channel 1 after a fan-out,
\* the first has received every fragment emitted, the second the last one.
C27_Witness ==
    /\ clients[1] = Viewers
    /\ pump[1].pc # "fanout"
    /\ Len(FragsOf(sink["v1"])) = hist.emitted[1]
    /\ hist.emitted[1] > 1
    /\ Len(FragsOf(sink["v2"])) = 1
    /\ conn["v1"] = "ok" /\ conn["v2"] = "ok"

\* C28: an eviction that runs does not delete the local copy of a video
\* that is some channel's current video at that moment; the file stays on
\* disk and stays tracked as downloaded.
C28_EvictionSparesCurrent ==
    [][\A t \in tasks \ tasks' :
          t.kind = "evict" =>
             \A ch \in channelStates :
                currentVideo[ch] = t.key =>
                   /\ t.key \in files => t.key \in files'
                   /\ t.key \in downloads => t.key \in downloads']_vars

\* C29: the step of a tick that advances a channel's current video leaves
\* the channel's Broadcaster, when it has one, with that video's local path
\* as its source path, and the two still agree when the tick ends.
C29_StateFollowsBroadcaster ==
    [][\A ch \in broadcasters :
          /\ hist'.rot[ch] > hist.rot[ch] => srcPath'[ch] = currentVideo'[ch]
          /\ ( /\ sched.pc # "idle" /\ sched'.pc = "idle"
               /\ hist.rot[ch] > 0
               /\ videoStartTime[ch] = now )
             => srcPath[ch] \in {currentVideo[ch], NoPath}]_vars

\* C30: the pump clears a Broadcaster's source path only after an error on
\* the file that the path names: a path stored by SwitchSource stays until
\* the pump has opened that file and failed on it.
C30_ErrorClearsOwnPathOnly ==
    [][\A ch \in broadcasters :
          (srcPath[ch] # NoPath /\ srcPath'[ch] = NoPath) =>
              pump[ch].file = srcPath[ch]]_vars

Pending(ch) == {pump[ch].pending[i] : i \in DOMAIN pump[ch].pending}

\* C32: AddClient returns only after the viewer's connection was cancelled;
\* once it has returned the viewer is in no fan-out set and in no running
\* range, and nothing is written to its sink any more; from registration to
\* cancellation every fragment the pump emits is written to the viewer: it
\* is in the range of every fragment emitted meanwhile, the range ends only
\* when it has written to everyone in it, and a write to a working
\* connection appends the fragment to the viewer's sink.
C32_ServedUntilCancelled ==
    /\ [][\A v \in Viewers :
            /\ (viewer'[v].pc = "gone" /\ viewer[v].pc # "gone")
                  => viewer[v].pc = "leaving"
            /\ (viewer'[v].pc = "leaving" /\ viewer[v].pc # "leaving")
                  => viewer[v].pc = "wait"
            /\ viewer[v].pc = "gone" =>
                  /\ viewer'[v] = viewer[v]
                  /\ sink'[v] = sink[v]
            /\ \A ch \in broadcasters :
                  /\ ( /\ viewer[v] = ViewerAt("wait", ch)
                       /\ pump[ch].pc = "read"
                       /\ pump'[ch].pc = "fanout" )
                     => \E i \in DOMAIN pump'[ch].pending :
                            pump'[ch].pending[i] = v
                  /\ ( /\ v \in Pending(ch)
                       /\ pump'[ch] # pump[ch] )
                     => /\ pump'[ch].pc = "fanout"
                        /\ pump'[ch].frag = pump[ch].frag
                        /\ IF v = Head(pump[ch].pending)
                           THEN /\ conn[v] # "slow"
                                /\ conn[v] = "ok" =>
                                      sink'[v] = Append(sink[v],
                                                <<"frag", pump[ch].frag>>)
                           ELSE \E i \in DOMAIN pump'[ch].pending :
                                    pump'[ch].pending[i] = v]_vars
    /\ [](\A v \in Viewers : viewer[v].pc = "gone" =>
             \A ch \in Channels : v \notin clients[ch] /\ v \notin Pending(ch))

\* C32 witness: v1 registered, was written a fragment, was cancelled and
\* removed, and the pump has emitted a further fragment since.
C32_Witness ==
    /\ viewer["v1"] = ViewerAt("gone", 1)
    /\ Len(FragsOf(sink["v1"])) >= 1
    /\ hist.emitted[1] > Len(FragsOf(sink["v1"]))
    /\ pump[1].pc = "fanout"

\* C33: for a channel with state and a playlist of more than one entry the
\* cached next-video hint is the entry the next-video rule yields for the
\* channel's current video.
C33_HintFollowsCurrent ==
    \A ch \in Channels :
        (currentVideo[ch] # NoVideo /\ Len(channelVideoMap[ch]) > 1) =>
            nextVideoByChannel[ch] =
                Successor(channelVideoMap[ch], currentVideo[ch])

\* C34: while the scheduler is blocked in getLocalPath on a video that is
\* not staged, a state query and a Broadcaster lookup for any channel can
\* complete.
C34_QueriesNeverWaitForStaging ==
    (sched.pc = "stage" /\ sched.next \notin downloads) =>
        \A ch \in Channels :
            /\ ENABLED GetChannelStateHandler(ch)
            /\ ENABLED Attach("v1", ch)

\* C35: every key the stager tracks as downloaded (IsVideoDownloaded is
\* true for it) has its local file on disk.
C35_TrackedMeansOnDisk ==
    \A k \in Videos : k \in downloads => k \in files

\* The channels whose current video or start time a step changes.
Touched ==
    {ch \in Channels : \/ currentVideo'[ch] # currentVideo[ch]
                       \/ videoStartTime'[ch] # videoStartTime[ch]}

\* C36: within a tick a step changes the current video and the start time
\* of the channel being handled only, and the set of channels with state
\* and their playlists not at all; handling a channel, whatever its
\* outcome, takes that channel alone out of the tick's range, the tick ends
\* only when the range is empty, and a channel still in the range can be
\* handled.
C36_ChannelsIndependent ==
    /\ [][/\ Touched \subseteq
                (IF sched.pc \in {"stage", "sw_open", "sw_path"}
                 THEN {sched.ch} ELSE {})
          /\ channelStates' = channelStates
          /\ channelVideoMap' = channelVideoMap
          /\ \A ch \in Channels \ {sched.ch} :
                srcPath'[ch] = srcPath[ch] /\ initSegment'[ch] = initSegment[ch]
          /\ (sched.pc = "chan" /\ sched'.pc # "chan")
                => \/ sched'.pc = "idle" /\ sched.todo = {}
                   \/ /\ sched'.pc = "stage"
                      /\ sched'.ch \in sched.todo
                      /\ sched'.todo = sched.todo
          /\ (sched.pc = "chan" /\ sched'.pc = "chan" /\ sched' # sched)
                => \E ch \in sched.todo : sched'.todo = sched.todo \ {ch}
          /\ (sched.pc \in {"stage", "sw_open", "sw_path"}
                /\ sched'.pc = "chan")
                => sched'.todo = sched.todo \ {sched.ch}]_vars
    /\ [](sched.pc = "chan" =>
             \A ch \in sched.todo : ENABLED SchedCheck(ch))

\* C36 witness: the first tick has rotated channel 2 while the staging for
\* channel 1 failed in the same tick and left channel 1 as it was.
C36_Witness ==
    /\ hist.ticks = 1
    /\ sched.pc = "chan"
    /\ sched.todo = {}
    /\ hist.fails[1] = 1
    /\ currentVideo[1] = "A"
    /\ videoStartTime[1] = 0
    /\ hist.rot[2] = 1
    /\ currentVideo[2] = "C"
    /\ videoStartTime[2] = now

\* C37: every fragment nextFragment returns is a moof box followed by the
\* box right after it in the file, and that box is an mdat; everything the
\* pump has emitted from the file is made of such pairs; a search that
\* ended with a readBox call at the very end of the file ended the pass
\* over the file as a normal end of file.
C37_FragmentIsMoofMdat ==
    LET f == demux.file
        IsPair(i, j) == /\ j = i + 1
                        /\ f.boxes[i].typ = "moof"
                        /\ f.boxes[j].typ = "mdat"
    IN /\ DemuxRunning =>
             /\ demux.pc = "pace" =>
                   /\ Len(demux.frag) = 2
                   /\ IsPair(demux.frag[1], demux.frag[2])
             /\ Len(demux.out) % 2 = 0
             /\ \A k \in 1..(Len(demux.out) \div 2) :
                   IsPair(demux.out[2 * k - 1], demux.out[2 * k])
       /\ ( /\ demux.pc \in {"done", "fatal", "crashed"}
            /\ demux.last.at = FileLen(f) )
          => demux.pc = "done"

\* C37 witness: a fragment was returned after a moof followed by a box
\* that is no mdat had been passed over.
C37_Witness ==
    /\ demux.pc = "pace"
    /\ Len(demux.frag) = 2
    /\ \E j \in 1..(demux.frag[1] - 1) :
          /\ demux.file.boxes[j].typ = "moof"
          /\ demux.file.boxes[j + 1].typ # "mdat"
          /\ j >= Len(demux.init) + 1

\* C38: with a positive quota q = targetBps/20 the pacing of a fragment of
\* N bytes starts with no sleep made, each pass of the loop sleeps once and
\* adds q to the count of bytes accounted for, and the pump goes on to the
\* next fragment after exactly ceil(N/q) sleeps, at least one for N > 0.
C38_PacingSleepsCeiling ==
    [][LET q == GoDiv(demux.bps, 20)
           N == RunBytes(demux.file, demux.frag)
           ticks == (N + q - 1) \div q
       IN /\ (demux.pc = "read" /\ demux'.pc = "pace") => demux'.sent = 0
          /\ (demux.pc = "pace" /\ q > 0) =>
                /\ demux.sent % q = 0
                /\ (demux'.pc = "pace" /\ demux' # demux) =>
                      /\ demux'.sent = demux.sent + q
                      /\ demux.sent \div q < ticks
                /\ demux'.pc # "pace" =>
                      /\ demux.sent \div q = ticks
                      /\ N > 0 => ticks >= 1]_vars

\* C38 witness: a fragment of 20 bytes at a quota of 5 bytes per sleep has
\* been paced with four sleeps and the loop is about to end.
C38_Witness ==
    /\ demux.pc = "pace"
    /\ GoDiv(demux.bps, 20) = 5
    /\ RunBytes(demux.file, demux.frag) = 20
    /\ demux.sent = 20

\* C39: for a channel with an empty playlist the scheduler's pick is an
\* asset of the catalog when the catalog is not empty, and a due channel is
\* then taken to staging with it; with an empty catalog there is no pick:
\* the channel is passed over and no step changes its current video, its
\* start time, the stager's files and tracking, or the Broadcaster's source
\* path and initialization segment.
C39_EmptyPlaylistFallback ==
    /\ [](sched.pc \in {"stage", "sw_open", "sw_path"} =>
             (Len(channelVideoMap[sched.ch]) = 0 =>
                 /\ videos # {}
                 /\ sched.next \in videos))
    /\ [][\A ch \in sched.todo :
            ( /\ sched.pc = "chan"
              /\ sched' # sched
              /\ Len(channelVideoMap[ch]) = 0
              /\ \/ ch \in broadcasters /\ srcPath[ch] = NoPath
                 \/ now - videoStartTime[ch] >= Duration(currentVideo[ch]) )
            => IF videos = {}
               THEN sched' = Continue(ch)
               ELSE /\ sched'.pc = "stage"
                    /\ sched'.ch = ch
                    /\ sched'.next \in videos]_vars
    /\ [][(videos = {} /\ \A ch \in Channels : Len(channelVideoMap[ch]) = 0)
            => UNCHANGED <<currentVideo, videoStartTime, downloads, files,
                           srcPath, initSegment>>]_vars

\* C39 witness: a tick found channel 1 due with an empty playlist and an
\* empty catalog and has passed it over.
C39_Witness ==
    /\ hist.ticks >= 1
    /\ sched.pc = "chan"
    /\ sched.todo = {}
    /\ videos = {}
    /\ channelVideoMap[1] = <<>>
    /\ now - videoStartTime[1] >= Duration(currentVideo[1])
    /\ currentVideo[1] = "A"
    /\ hist.rot[1] = 0
    /\ hist.fails[1] = 0

====
